---------------------------- MODULE Spec2Model ----------------------------
(***************************************************************************)
(* Model of go-database: the filter criteria and their two backend         *)
(* translators, the pagination normaliser, and the Unit-of-Work            *)
(* orchestrator (transactions, CRUD, soft delete / restore).               *)
(*                                                                         *)
(* Three specifications share the module:                                  *)
(*   SpecUow     the Unit of Work driving a storage handle                 *)
(*   SpecPage    the pagination pipeline of QueryParams.PrepareDefaults    *)
(*   SpecFilter  the relational and the document-store filter translators  *)
(*                                                                         *)
(* The storage handle (gorm.DB over a table whose model embeds             *)
(* types.BaseEntity, i.e. carries a gorm.DeletedAt column; a mongo         *)
(* collection) is the external collaborator.  It is modelled by what the   *)
(* calls made by the code do: gorm joins the expressions of a WHERE        *)
(* clause in the order they were added, with " OR " before an expression   *)
(* added by Or() and " AND " before any other, without parentheses, so     *)
(* SQL precedence (AND binds tighter than OR) decides the meaning; a       *)
(* *gorm.DB passed as a condition becomes one parenthesised expression;    *)
(* a model with gorm.DeletedAt gets "deleted_at IS NULL" added to every    *)
(* non-Unscoped query, update and delete, after wrapping an existing       *)
(* WHERE that contains an Or() expression in parentheses.                  *)
(***************************************************************************)
EXTENDS Integers, Sequences, FiniteSets, TLC

(***************************************************************************)
(* Bounds                                                                  *)
(***************************************************************************)
MaxId == 2          \* primary keys are 1..MaxId
MaxVal == 1         \* column values are 0..MaxVal
MaxFilters == 3     \* longest criteria sequence handed to a translator
MaxTx == 2          \* storage transactions that can be open at once
MaxPage == 4        \* largest page number requested
MaxSmallSize == 3   \* page sizes and limits requested: up to this, and the edge values
MaxOffset == 6      \* largest offset requested
MaxBuilt == 2       \* longest criteria sequence of the receiving builder
MaxCalls == 2       \* builder calls running concurrently
MaxBulk == 2        \* longest slice handed to a bulk operation
MaxEdits == 2       \* changes made to the QueryParams values after Clone

Null == -1          \* nil / SQL NULL / absent value
Nil == 0            \* nil transaction handle (uow.tx == nil, uow.session == nil)

Ids == 1..MaxId
Vals == 0..MaxVal

(***************************************************************************)
(* Filter criteria (identifier.FilterCriteria)                             *)
(***************************************************************************)
FilterOperatorEqual == "eq"
FilterOperatorNotEqual == "neq"
FilterOperatorGreaterThan == "gt"
FilterOperatorGreaterEqual == "gte"
FilterOperatorLessThan == "lt"
FilterOperatorLessEqual == "lte"
FilterOperatorIn == "in"
FilterOperatorNotIn == "not_in"
FilterOperatorIsNull == "is_null"
FilterOperatorIsNotNull == "is_not_null"
FilterOperatorBetween == "between"

LogicalOperatorAnd == "and"
LogicalOperatorOr == "or"

\* A FilterCriteria value; logicalOp "" is the unset LogicalOp, group <<>> a leaf.
FilterCriteria(field, operator, value, values, logicalOp, group) ==
  [field |-> field, operator |-> operator, value |-> value, values |-> values,
   logicalOp |-> logicalOp, group |-> group]

\* IdentifierBuilder.Equal on an empty builder, then ToFilterCriteria.
Equal(field, value) ==
  << FilterCriteria(field, FilterOperatorEqual, value, <<>>, "", <<>>) >>

\* IdentifierBuilder.In / NotIn / Between on an empty builder: the list goes
\* to Values, Value stays nil.
In(field, values) ==
  << FilterCriteria(field, FilterOperatorIn, Null, values, "", <<>>) >>

NotIn(field, values) ==
  << FilterCriteria(field, FilterOperatorNotIn, Null, values, "", <<>>) >>

Between(field, start, end) ==
  << FilterCriteria(field, FilterOperatorBetween, Null, << start, end >>, "", <<>>) >>

(***************************************************************************)
(* Rows / documents.  deleted is "deleted_at IS NOT NULL" (relational) and *)
(* "deleted_at exists" (document store).                                   *)
(***************************************************************************)
FieldValue(r, f) == r[f]

SeqToSet(s) == { s[i] : i \in 1..Len(s) }

\* Decimal digits of a non-negative integer (CAST(id AS TEXT)).
RECURSIVE Digits(_)
Digits(n) == IF n < 10 THEN {n} ELSE {n % 10} \cup Digits(n \div 10)

(***************************************************************************)
(* gorm statement: the ordered expressions of the WHERE clause and the     *)
(* Unscoped flag.  An expression is a condition or a parenthesised group,  *)
(* and remembers whether Or() added it.                                    *)
(***************************************************************************)
NewStatement == [where |-> <<>>, unscoped |-> FALSE]

Cond(sql, field, value, values) ==
  [kind |-> "cond", or |-> FALSE, sql |-> sql, field |-> field, value |-> value,
   values |-> values, sub |-> <<>>]

Group(exprs) ==
  [kind |-> "group", or |-> FALSE, sql |-> "()", field |-> "", value |-> Null,
   values |-> <<>>, sub |-> exprs]

NoCond == Cond("", "", Null, <<>>)
DeletedAtIsNull == Cond("IS NULL", "deleted_at", Null, <<>>)
DeletedAtIsNotNull == Cond("IS NOT NULL", "deleted_at", Null, <<>>)

\* db.Where(cond): an empty condition string adds nothing.
GormWhere(stmt, e) ==
  IF e.kind = "cond" /\ e.sql = "" THEN stmt
  ELSE [stmt EXCEPT !.where = Append(@, [e EXCEPT !.or = FALSE])]

\* db.Or(cond)
GormOr(stmt, e) ==
  IF e.kind = "cond" /\ e.sql = "" THEN stmt
  ELSE [stmt EXCEPT !.where = Append(@, [e EXCEPT !.or = TRUE])]

\* db.Where(groupQuery) / db.Or(groupQuery) with a *gorm.DB argument: its WHERE
\* expressions become one parenthesised condition; nothing if it has none.
GormWhereDB(stmt, sub) ==
  IF Len(sub.where) = 0 THEN stmt ELSE GormWhere(stmt, Group(sub.where))

GormOrDB(stmt, sub) ==
  IF Len(sub.where) = 0 THEN stmt ELSE GormOr(stmt, Group(sub.where))

GormUnscoped(stmt) == [stmt EXCEPT !.unscoped = TRUE]

\* Does the row satisfy one SQL condition?  A comparison with NULL is not true.
EvalCond(e, r) ==
  LET v == IF e.field \in {"", "deleted_at"} THEN Null ELSE FieldValue(r, e.field) IN
  CASE e.sql = "=" -> v # Null /\ e.value # Null /\ v = e.value
    [] e.sql = "!=" -> v # Null /\ e.value # Null /\ v # e.value
    [] e.sql = ">" -> v # Null /\ e.value # Null /\ v > e.value
    [] e.sql = ">=" -> v # Null /\ e.value # Null /\ v >= e.value
    [] e.sql = "<" -> v # Null /\ e.value # Null /\ v < e.value
    [] e.sql = "<=" -> v # Null /\ e.value # Null /\ v <= e.value
    [] e.sql = "IN" -> v # Null /\ v \in SeqToSet(e.values)
    [] e.sql = "NOT IN" -> v # Null /\ v \notin SeqToSet(e.values)
                             /\ Null \notin SeqToSet(e.values)
    [] e.sql = "1 = 0" -> FALSE
    [] e.sql = "1 = 1" -> TRUE
    [] e.sql = "IS NULL" ->
         IF e.field = "deleted_at" THEN ~r.deleted ELSE v = Null
    [] e.sql = "IS NOT NULL" ->
         IF e.field = "deleted_at" THEN r.deleted ELSE v # Null
    [] e.sql = "BETWEEN" ->
         v # Null /\ e.values[1] # Null /\ e.values[2] # Null
         /\ v >= e.values[1] /\ v <= e.values[2]
    [] e.sql = "CAST(id AS TEXT) LIKE" -> e.value \in Digits(r.id)

\* clause.Where.Build: if the first expression is a single Or condition it
\* changes place with the first expression that is not.
WhereOrder(exprs) ==
  IF Len(exprs) = 0 \/ ~exprs[1].or \/ \A i \in 1..Len(exprs) : exprs[i].or
  THEN exprs
  ELSE LET k == CHOOSE i \in 1..Len(exprs) :
                  ~exprs[i].or /\ \A j \in 1..(i-1) : exprs[j].or
       IN [exprs EXCEPT ![1] = exprs[k], ![k] = exprs[1]]

\* The SQL text "e1 <AND|OR> e2 <AND|OR> ..." evaluated with SQL precedence:
\* the disjunction of the maximal runs joined by AND.  No WHERE selects all.
RECURSIVE EvalWhere(_, _)
EvalWhere(exprs, r) ==
  LET es == WhereOrder(exprs)
      n == Len(es)
      EvalExpr(e) == IF e.kind = "group" THEN EvalWhere(e.sub, r) ELSE EvalCond(e, r)
      RunStart(i) == i = 1 \/ es[i].or
      InRun(i, j) == \A k \in (i+1)..j : ~es[k].or
  IN n = 0 \/ \E i \in 1..n :
                 RunStart(i) /\ \A j \in i..n : InRun(i, j) => EvalExpr(es[j])

HasOrExpr(exprs) == \E i \in 1..Len(exprs) : exprs[i].or

\* gorm.DeletedAt's query clause (SoftDeleteQueryClause.ModifyStatement).
SoftDeleteQueryClause(stmt) ==
  IF stmt.unscoped THEN stmt
  ELSE LET wrapped == IF HasOrExpr(stmt.where) THEN << Group(stmt.where) >>
                      ELSE stmt.where
       IN [stmt EXCEPT !.where = Append(wrapped, DeletedAtIsNull)]

\* Rows of a table that a query built on stmt returns (Find / Count).
Select(stmt, rows) ==
  { r \in rows : EvalWhere(SoftDeleteQueryClause(stmt).where, r) }

(***************************************************************************)
(* Relational translator (FilterApplier)                                   *)
(***************************************************************************)
\* The condition string and arguments chosen by the operator switch of
\* applySingleFilter; "unknown" for the default branch.
SingleFilterCond(filter) ==
  LET op == filter.operator IN
  CASE op = FilterOperatorEqual -> Cond("=", filter.field, filter.value, <<>>)
    [] op = FilterOperatorNotEqual -> Cond("!=", filter.field, filter.value, <<>>)
    [] op = FilterOperatorGreaterThan -> Cond(">", filter.field, filter.value, <<>>)
    [] op = FilterOperatorGreaterEqual -> Cond(">=", filter.field, filter.value, <<>>)
    [] op = FilterOperatorLessThan -> Cond("<", filter.field, filter.value, <<>>)
    [] op = FilterOperatorLessEqual -> Cond("<=", filter.field, filter.value, <<>>)
    [] op = FilterOperatorIn ->
         IF Len(filter.values) > 0 THEN Cond("IN", filter.field, Null, filter.values)
         ELSE Cond("1 = 0", "", Null, <<>>)
    [] op = FilterOperatorNotIn ->
         IF Len(filter.values) > 0 THEN Cond("NOT IN", filter.field, Null, filter.values)
         ELSE Cond("1 = 1", "", Null, <<>>)
    [] op = FilterOperatorIsNull -> Cond("IS NULL", filter.field, Null, <<>>)
    [] op = FilterOperatorIsNotNull -> Cond("IS NOT NULL", filter.field, Null, <<>>)
    [] op = FilterOperatorBetween ->
         IF Len(filter.values) >= 2
         THEN Cond("BETWEEN", filter.field, Null, << filter.values[1], filter.values[2] >>)
         ELSE NoCond
    [] OTHER -> Cond("unknown", "", Null, <<>>)

applySingleFilter(query, filter, isFirst, useOr) ==
  LET c == SingleFilterCond(filter) IN
  IF c.sql = "unknown" THEN query
  ELSE IF isFirst THEN GormWhere(query, c)
  ELSE IF useOr THEN GormOr(query, c)
  ELSE GormWhere(query, c)

RECURSIVE ApplyFilters(_, _)
\* applyGroupFilter: the group is translated on a fresh session and added as
\* one condition.
\* Mutant: the members of the group are applied to the running query itself.
applyGroupFilter_Flat(query, filter, isFirst, useOr) ==
  ApplyFilters(query, filter.group)

applyGroupFilter(query, filter, isFirst, useOr) ==
  LET groupQuery == ApplyFilters(NewStatement, filter.group) IN
  IF isFirst THEN GormWhereDB(query, groupQuery)
  ELSE IF useOr THEN GormOrDB(query, groupQuery)
  ELSE GormWhereDB(query, groupQuery)

applyFilter(query, filter, isFirst, useOr) ==
  IF Len(filter.group) > 0 THEN applyGroupFilter(query, filter, isFirst, useOr)
  ELSE applySingleFilter(query, filter, isFirst, useOr)

RECURSIVE ApplyFiltersFrom(_, _, _)
ApplyFiltersFrom(query, filters, i) ==
  IF i > Len(filters) THEN query
  ELSE LET isFirst == i = 1
           useOr == IF ~isFirst THEN filters[i-1].logicalOp = LogicalOperatorOr
                    ELSE FALSE
       IN ApplyFiltersFrom(applyFilter(query, filters[i], isFirst, useOr), filters, i + 1)

ApplyFilters(query, filters) ==
  IF Len(filters) = 0 THEN query ELSE ApplyFiltersFrom(query, filters, 1)

\* ApplyIdentifier / BuildQueryFromIdentifier: db.Model(new(T)) then the
\* identifier's criteria.
BuildQueryFromIdentifier(identifier) == ApplyFilters(NewStatement, identifier)

\* ApplyQueryParams: filters, search, then the soft-delete visibility.
\* search is a digit, Null for the empty search string.
ApplyQueryParams(query, params) ==
  LET q1 == IF Len(params.filters) > 0 THEN ApplyFilters(query, params.filters)
            ELSE query
      q2 == IF params.search # Null
            THEN GormWhere(q1, Cond("CAST(id AS TEXT) LIKE", "", params.search, <<>>))
            ELSE q1
  IN IF params.onlyDeleted THEN GormWhere(GormUnscoped(q2), DeletedAtIsNotNull)
     ELSE IF ~params.includeDeleted THEN GormWhere(q2, DeletedAtIsNull)
     ELSE GormUnscoped(q2)

(***************************************************************************)
(* Document-store translator (MongoFilterApplier).  A bson.M filter is a   *)
(* map from field name to one condition; the document store matches a      *)
(* document when every entry of the map holds.                             *)
(***************************************************************************)
BsonCond(op, value, values) == [op |-> op, value |-> value, values |-> values]

EmptyBson == [f \in {} |-> BsonCond("", Null, <<>>)]

\* filter[field] = cond
BsonSet(filter, field, cond) ==
  [f \in DOMAIN filter \cup {field} |-> IF f = field THEN cond ELSE filter[f]]

DeletedAtExists(b) == BsonCond("$exists", IF b THEN 1 ELSE 0, <<>>)

\* applyFilterCriteria: the switch on criterion.Operator; it reads Field and
\* Value only, and an operator without a case leaves the filter as it is.
applyFilterCriteria(filter, criterion) ==
  LET field == criterion.field
      value == criterion.value
      op == criterion.operator
  IN
  CASE op = FilterOperatorEqual -> BsonSet(filter, field, BsonCond("$eq", value, <<>>))
    [] op = FilterOperatorNotEqual -> BsonSet(filter, field, BsonCond("$ne", value, <<>>))
    [] op = FilterOperatorGreaterThan -> BsonSet(filter, field, BsonCond("$gt", value, <<>>))
    [] op = FilterOperatorGreaterEqual -> BsonSet(filter, field, BsonCond("$gte", value, <<>>))
    [] op = FilterOperatorLessThan -> BsonSet(filter, field, BsonCond("$lt", value, <<>>))
    [] op = FilterOperatorLessEqual -> BsonSet(filter, field, BsonCond("$lte", value, <<>>))
    [] op = FilterOperatorIn -> BsonSet(filter, field, BsonCond("$in", value, <<>>))
    [] op = FilterOperatorNotIn -> BsonSet(filter, field, BsonCond("$nin", value, <<>>))
    [] op = FilterOperatorBetween -> filter  \* Value is no two-element list: the builder fills Values
    [] op = FilterOperatorIsNull -> BsonSet(filter, field, DeletedAtExists(FALSE))
    [] op = FilterOperatorIsNotNull -> BsonSet(filter, field, BsonCond("$exists-ne-nil", Null, <<>>))
    [] OTHER -> filter

RECURSIVE BsonApplyFrom(_, _, _)
BsonApplyFrom(filter, criteria, i) ==
  IF i > Len(criteria) THEN filter
  ELSE BsonApplyFrom(applyFilterCriteria(filter, criteria[i]), criteria, i + 1)

\* BuildFilterFromIdentifier: bson.M{} and one applyFilterCriteria per criterion.
BuildFilterFromIdentifier(identifier) == BsonApplyFrom(EmptyBson, identifier, 1)

\* Does the document satisfy the condition stored under field f?
BsonEvalCond(c, f, r) ==
  LET v == IF f = "deleted_at" THEN Null ELSE FieldValue(r, f) IN
  CASE c.op = "$eq" -> v = c.value
    [] c.op = "$ne" -> v # c.value
    [] c.op = "$gt" -> v # Null /\ c.value # Null /\ v > c.value
    [] c.op = "$gte" -> v # Null /\ c.value # Null /\ v >= c.value
    [] c.op = "$lt" -> v # Null /\ c.value # Null /\ v < c.value
    [] c.op = "$lte" -> v # Null /\ c.value # Null /\ v <= c.value
    [] c.op = "$exists" ->
         IF f = "deleted_at" THEN r.deleted = (c.value = 1)
         ELSE (v # Null) = (c.value = 1)
    [] c.op = "$exists-ne-nil" -> v # Null

\* The document store rejects a filter whose $in / $nin operand is not an
\* array ("$in needs an array"); Value is never a list in this model.
BsonInvalid(filter) ==
  \E f \in DOMAIN filter : filter[f].op \in {"$in", "$nin"}

BsonMatch(filter, r) == \A f \in DOMAIN filter : BsonEvalCond(filter[f], f, r)

BsonSelect(filter, rows) == { r \in rows : BsonMatch(filter, r) }

(***************************************************************************)
(* State                                                                   *)
(***************************************************************************)
VARIABLES
  backend,    \* which orchestrator the instance is: "postgres" or "mongo"
  tx,         \* uow.tx (relational) / uow.session (document store); Nil when none
  committed,  \* storage: the committed rows of the table / collection
  txView,     \* storage: the open transactions, each with the rows it sees
  last,       \* the last call made on the instance and what it returned
  request,    \* the pagination request as the caller made it
  qp,         \* the QueryParams value built from the request (pagination fields)
  qpTwin,     \* the offset/limit request for the same page as qp's page/pageSize
  prepared,   \* PrepareDefaults calls made so far on <<qp, qpTwin>>
  query,      \* translator input: criteria, search and visibility flags
  selected,   \* translator output: the rows each translation selects
  receiver,   \* the criteria buffer of the builder that receives the calls
  argument,   \* the criteria buffer of the builder passed as argument
  original,   \* what ToFilterCriteria reported for both before any call
  calls,      \* the builder calls in progress, one per goroutine
  heap,       \* the backing arrays of the slices of the QueryParams values
  qpOrig,     \* the QueryParams value q that Clone is called on
  qpClone,    \* the QueryParams value c that Clone returned
  edits,      \* whether Clone has run, and the changes made since
  begins      \* the BeginTransaction calls in progress, one per goroutine

uowVars == << backend, tx, committed, txView, last >>
pageVars == << request, qp, qpTwin, prepared >>
filterVars == << query, selected >>
builderVars == << receiver, argument, original, calls >>
cloneVars == << heap, qpOrig, qpClone, edits >>
raceVars == << begins >>
vars == << backend, tx, committed, txView, last, request, qp, qpTwin, prepared, query, selected, receiver, argument, original, calls, heap, qpOrig, qpClone, edits, begins >>

(***************************************************************************)
(* Storage handle: one table, transactions with their own view.            *)
(***************************************************************************)
Entity(id, val, deleted) == [id |-> id, val |-> val, deleted |-> deleted]

ErrNone == ""
ErrInProgress == "transaction already in progress"
ErrNoActive == "no active transaction to commit"
ErrRecordNotFound == "record not found"
ErrStorage == "storage error"
ErrDuplicate == "duplicate key"

\* A call on the instance: its name, its argument, the error and the entities it returned.
Result(op, arg, err, ret) ==
  [op |-> op, arg |-> arg, err |-> err, ret |-> ret, total |-> 0]

\* A call that also returns a total count.
ResultWithTotal(op, arg, err, ret, total) ==
  [op |-> op, arg |-> arg, err |-> err, ret |-> ret, total |-> total]

OpenTxs == DOMAIN txView

\* db.Begin() / client.StartSession + StartTransaction: a fresh handle whose
\* view starts as the committed rows.
NewTx == CHOOSE h \in 1..MaxTx : h \notin OpenTxs

StorageBegin(h) == [t \in OpenTxs \cup {h} |-> IF t = h THEN committed ELSE txView[t]]

StorageEnd(h) == [t \in OpenTxs \ {h} |-> txView[t]]

\* Rows seen through a handle: Nil is the plain connection (uow.db).
Rows(h) == IF h = Nil THEN committed ELSE txView[h]

\* committed' and txView' after the rows seen through h become rows.
WriteRows(h, rows) ==
  IF h = Nil
  THEN committed' = rows /\ txView' = txView
  ELSE committed' = committed /\ txView' = [txView EXCEPT ![h] = rows]

\* First(): ORDER BY primary key LIMIT 1
MinById(rows) == CHOOSE r \in rows : \A o \in rows : r.id <= o.id

First(rows) == IF rows = {} THEN {} ELSE { MinById(rows) }

MaxRowId(rows) == IF rows = {} THEN 0 ELSE (CHOOSE r \in rows : \A o \in rows : r.id >= o.id).id

(***************************************************************************)
(* PostgresUnitOfWork                                                      *)
(***************************************************************************)
\* Mutant: every call goes to the plain connection, also inside a transaction.
getDB_IgnoresTx == Nil

getDB == IF tx # Nil THEN tx ELSE Nil

PgBeginTransaction ==
  /\ backend = "postgres"
  /\ IF tx # Nil
     THEN /\ last' = Result("BeginTransaction", Null, ErrInProgress, {})
          /\ UNCHANGED << tx, committed, txView >>
     ELSE \E ok \in BOOLEAN :
            IF ok /\ OpenTxs # 1..MaxTx
            THEN /\ txView' = StorageBegin(NewTx)
                 /\ tx' = NewTx
                 /\ last' = Result("BeginTransaction", Null, ErrNone, {})
                 /\ UNCHANGED committed
            ELSE /\ last' = Result("BeginTransaction", Null, ErrStorage, {})
                 /\ UNCHANGED << tx, committed, txView >>
  /\ UNCHANGED << backend, pageVars, filterVars, builderVars, cloneVars, raceVars >>

\* Mutant: a failed storage commit returns before the handle is cleared.
PgCommitTransaction_KeepsTxOnError ==
  /\ backend = "postgres"
  /\ IF tx = Nil
     THEN /\ last' = Result("CommitTransaction", Null, ErrNoActive, {})
          /\ UNCHANGED << tx, committed, txView >>
     ELSE \E ok \in BOOLEAN :
            /\ committed' = IF ok THEN txView[tx] ELSE committed
            /\ txView' = IF ok THEN StorageEnd(tx) ELSE txView
            /\ tx' = IF ok THEN Nil ELSE tx
            /\ last' = Result("CommitTransaction", Null, IF ok THEN ErrNone ELSE ErrStorage, {})
  /\ UNCHANGED << backend, pageVars, filterVars, builderVars, cloneVars, raceVars >>

PgCommitTransaction ==
  /\ backend = "postgres"
  /\ IF tx = Nil
     THEN /\ last' = Result("CommitTransaction", Null, ErrNoActive, {})
          /\ UNCHANGED << tx, committed, txView >>
     ELSE \E ok \in BOOLEAN :
            /\ committed' = IF ok THEN txView[tx] ELSE committed
            /\ txView' = StorageEnd(tx)
            /\ tx' = Nil
            /\ last' = Result("CommitTransaction", Null, IF ok THEN ErrNone ELSE ErrStorage, {})
  /\ UNCHANGED << backend, pageVars, filterVars, builderVars, cloneVars, raceVars >>

\* Mutant: rolling back without a transaction reports an error.
PgRollbackTransaction_ErrWhenNone ==
  /\ backend = "postgres"
  /\ IF tx # Nil
     THEN /\ txView' = StorageEnd(tx)
          /\ tx' = Nil
          /\ UNCHANGED committed
          /\ last' = Result("RollbackTransaction", Null, ErrNone, {})
     ELSE /\ UNCHANGED << tx, committed, txView >>
          /\ last' = Result("RollbackTransaction", Null, ErrNoActive, {})
  /\ UNCHANGED << backend, pageVars, filterVars, builderVars, cloneVars, raceVars >>

PgRollbackTransaction ==
  /\ backend = "postgres"
  /\ IF tx # Nil
     THEN /\ txView' = StorageEnd(tx)
          /\ tx' = Nil
          /\ UNCHANGED committed
     ELSE UNCHANGED << tx, committed, txView >>
  /\ last' = Result("RollbackTransaction", Null, ErrNone, {})
  /\ UNCHANGED << backend, pageVars, filterVars, builderVars, cloneVars, raceVars >>

(***************************************************************************)
(* MongoUnitOfWork: transaction management                                 *)
(***************************************************************************)
\* Mutant: no check for a session already in place.
MongoBeginTransaction_NoGuard ==
  /\ backend = "mongo"
  /\ \E sessionOk \in BOOLEAN, startOk \in BOOLEAN :
       IF sessionOk /\ startOk /\ OpenTxs # 1..MaxTx
       THEN /\ txView' = StorageBegin(NewTx)
            /\ tx' = NewTx
            /\ last' = Result("BeginTransaction", Null, ErrNone, {})
            /\ UNCHANGED committed
       ELSE /\ last' = Result("BeginTransaction", Null, ErrStorage, {})
            /\ UNCHANGED << tx, committed, txView >>
  /\ UNCHANGED << backend, pageVars, filterVars, builderVars, cloneVars, raceVars >>

MongoBeginTransaction ==
  /\ backend = "mongo"
  /\ IF tx # Nil
     THEN /\ last' = Result("BeginTransaction", Null, ErrInProgress, {})
          /\ UNCHANGED << tx, committed, txView >>
     ELSE \E sessionOk \in BOOLEAN, startOk \in BOOLEAN :
            IF sessionOk /\ startOk /\ OpenTxs # 1..MaxTx
            THEN /\ txView' = StorageBegin(NewTx)
                 /\ tx' = NewTx
                 /\ last' = Result("BeginTransaction", Null, ErrNone, {})
                 /\ UNCHANGED committed
            ELSE \* StartSession failed, or StartTransaction failed and the
                 \* session was ended
                 /\ last' = Result("BeginTransaction", Null, ErrStorage, {})
                 /\ UNCHANGED << tx, committed, txView >>
  /\ UNCHANGED << backend, pageVars, filterVars, builderVars, cloneVars, raceVars >>

MongoCommitTransaction ==
  /\ backend = "mongo"
  /\ IF tx = Nil
     THEN /\ last' = Result("CommitTransaction", Null, ErrNoActive, {})
          /\ UNCHANGED << tx, committed, txView >>
     ELSE \E ok \in BOOLEAN :
            /\ committed' = IF ok THEN txView[tx] ELSE committed
            /\ txView' = StorageEnd(tx)
            /\ tx' = Nil
            /\ last' = Result("CommitTransaction", Null, IF ok THEN ErrNone ELSE ErrStorage, {})
  /\ UNCHANGED << backend, pageVars, filterVars, builderVars, cloneVars, raceVars >>

MongoRollbackTransaction ==
  /\ backend = "mongo"
  /\ IF tx # Nil
     THEN /\ txView' = StorageEnd(tx)
          /\ tx' = Nil
          /\ UNCHANGED committed
     ELSE UNCHANGED << tx, committed, txView >>
  /\ last' = Result("RollbackTransaction", Null, ErrNone, {})
  /\ UNCHANGED << backend, pageVars, filterVars, builderVars, cloneVars, raceVars >>

(***************************************************************************)
(* PostgresUnitOfWork: CRUD.  Every call goes to getDB().                  *)
(***************************************************************************)
\* db.First(&entity, id): primary-key condition on a fresh statement.
ByPrimaryKey(id) == GormWhere(NewStatement, Cond("=", "id", id, <<>>))

\* db.Create(entity): the primary key is generated when it is zero; a key that
\* is already in the table (deleted or not) is refused.
PgInsert(entity) ==
  /\ backend = "postgres"
  /\ LET rows == Rows(getDB)
         id == IF entity.id = 0 THEN MaxRowId(rows) + 1 ELSE entity.id
         created == [entity EXCEPT !.id = id]
     IN /\ id \in Ids
        /\ IF \E r \in rows : r.id = id
           THEN /\ last' = Result("Insert", entity.id, ErrDuplicate, {})
                /\ UNCHANGED << committed, txView >>
           ELSE /\ WriteRows(getDB, rows \cup {created})
                /\ last' = Result("Insert", entity.id, ErrNone, {created})
  /\ UNCHANGED << backend, tx, pageVars, filterVars, builderVars, cloneVars, raceVars >>

PgFindOneById(id) ==
  /\ backend = "postgres"
  /\ LET found == First(Select(ByPrimaryKey(id), Rows(getDB)))
     IN last' = Result("FindOneById", id,
                       IF found = {} THEN ErrRecordNotFound ELSE ErrNone, found)
  /\ UNCHANGED << backend, tx, committed, txView, pageVars, filterVars, builderVars, cloneVars, raceVars >>

\* Mutant: the lookup also finds soft-deleted rows.
FindOneByIdentifier_Unscoped(identifier, rows) ==
  First(Select(GormUnscoped(BuildQueryFromIdentifier(identifier)), rows))

\* The entity FindOneByIdentifier returns, {} when it returns an error.
FindOneByIdentifier(identifier, rows) ==
  First(Select(BuildQueryFromIdentifier(identifier), rows))

\* db.Save(entity): with a zero primary key it creates; otherwise it updates
\* every column of the live row with that key and, when no row was updated,
\* inserts the entity, overwriting a row that has the key.
Save(rows, entity) ==
  IF entity.id = 0
  THEN rows \cup { [entity EXCEPT !.id = MaxRowId(rows) + 1] }
  ELSE { r \in rows : r.id # entity.id } \cup {entity}

SavedEntity(rows, entity) ==
  IF entity.id = 0 THEN [entity EXCEPT !.id = MaxRowId(rows) + 1] ELSE entity

PgUpdate(identifier, entity) ==
  /\ backend = "postgres"
  /\ LET rows == Rows(getDB)
         found == FindOneByIdentifier(identifier, rows)
     IN IF found = {}
        THEN /\ last' = Result("Update", identifier, ErrRecordNotFound, {})
             /\ UNCHANGED << committed, txView >>
        ELSE /\ SavedEntity(rows, entity).id \in Ids
             /\ WriteRows(getDB, Save(rows, entity))
             /\ last' = Result("Update", identifier, ErrNone, {SavedEntity(rows, entity)})
  /\ UNCHANGED << backend, tx, pageVars, filterVars, builderVars, cloneVars, raceVars >>

\* Delete(new(T)) on a model with gorm.DeletedAt: sets deleted_at on every live
\* row the statement matches.
SoftDeleteRows(stmt, rows) ==
  LET hit == Select(stmt, rows)
  IN { IF r \in hit THEN [r EXCEPT !.deleted = TRUE] ELSE r : r \in rows }

PgSoftDelete(identifier) ==
  /\ backend = "postgres"
  /\ LET rows == Rows(getDB)
         entity == FindOneByIdentifier(identifier, rows)
     IN IF entity = {}
        THEN /\ last' = Result("SoftDelete", identifier, ErrRecordNotFound, {})
             /\ UNCHANGED << committed, txView >>
        ELSE /\ WriteRows(getDB, SoftDeleteRows(BuildQueryFromIdentifier(identifier), rows))
             /\ last' = Result("SoftDelete", identifier, ErrNone, entity)
  /\ UNCHANGED << backend, tx, pageVars, filterVars, builderVars, cloneVars, raceVars >>

PgHardDelete(identifier) ==
  /\ backend = "postgres"
  /\ LET rows == Rows(getDB)
         q == GormUnscoped(BuildQueryFromIdentifier(identifier))
         entity == First(Select(q, rows))
     IN IF entity = {}
        THEN /\ last' = Result("HardDelete", identifier, ErrRecordNotFound, {})
             /\ UNCHANGED << committed, txView >>
        ELSE /\ WriteRows(getDB, rows \ Select(q, rows))
             /\ last' = Result("HardDelete", identifier, ErrNone, entity)
  /\ UNCHANGED << backend, tx, pageVars, filterVars, builderVars, cloneVars, raceVars >>

PgGetTrashed ==
  /\ backend = "postgres"
  /\ last' = Result("GetTrashed", Null, ErrNone,
                    Select(GormWhere(GormUnscoped(NewStatement), DeletedAtIsNotNull),
                           Rows(getDB)))
  /\ UNCHANGED << backend, tx, committed, txView, pageVars, filterVars, builderVars, cloneVars, raceVars >>

\* Restore: find a deleted match, clear deleted_at on every row matching the
\* identifier (Unscoped), then read the first match back by primary key.
\* Mutant: Restore looks for its match without Unscoped().
PgRestore_Scoped(identifier) ==
  /\ backend = "postgres"
  /\ LET rows == Rows(getDB)
         q == BuildQueryFromIdentifier(identifier)
         entity == First(Select(GormWhere(q, DeletedAtIsNotNull), rows))
         hit == Select(q, rows)
         restored == { IF r \in hit THEN [r EXCEPT !.deleted = FALSE] ELSE r : r \in rows }
     IN IF entity = {}
        THEN /\ last' = Result("Restore", identifier, ErrRecordNotFound, {})
             /\ UNCHANGED << committed, txView >>
        ELSE LET restoredEntity == First(Select(ByPrimaryKey(MinById(entity).id), restored))
             IN /\ WriteRows(getDB, restored)
                /\ last' = Result("Restore", identifier,
                                  IF restoredEntity = {} THEN ErrRecordNotFound ELSE ErrNone,
                                  restoredEntity)
  /\ UNCHANGED << backend, tx, pageVars, filterVars, builderVars, cloneVars, raceVars >>

PgRestore(identifier) ==
  /\ backend = "postgres"
  /\ LET rows == Rows(getDB)
         q == GormUnscoped(BuildQueryFromIdentifier(identifier))
         entity == First(Select(GormWhere(q, DeletedAtIsNotNull), rows))
         hit == Select(q, rows)
         restored == { IF r \in hit THEN [r EXCEPT !.deleted = FALSE] ELSE r : r \in rows }
     IN IF entity = {}
        THEN /\ last' = Result("Restore", identifier, ErrRecordNotFound, {})
             /\ UNCHANGED << committed, txView >>
        ELSE LET restoredEntity == First(Select(ByPrimaryKey(MinById(entity).id), restored))
             IN /\ WriteRows(getDB, restored)
                /\ last' = Result("Restore", identifier,
                                  IF restoredEntity = {} THEN ErrRecordNotFound ELSE ErrNone,
                                  restoredEntity)
  /\ UNCHANGED << backend, tx, pageVars, filterVars, builderVars, cloneVars, raceVars >>

(***************************************************************************)
(* Values the variables of the specifications that are not running keep.   *)
(***************************************************************************)
QueryParams(page, pageSize, offset, limit) ==
  [page |-> page, pageSize |-> pageSize, offset |-> offset, limit |-> limit,
   computedOffset |-> 0, computedLimit |-> 0]

UowIdle ==
  /\ backend = "none"
  /\ tx = Nil
  /\ committed = {}
  /\ txView = << >>
  /\ last = Result("New", Null, ErrNone, {})

PageIdle ==
  /\ request = QueryParams(0, 0, 0, 0)
  /\ qp = QueryParams(0, 0, 0, 0)
  /\ qpTwin = QueryParams(0, 0, 0, 0)
  /\ prepared = << 0, 0 >>

FilterIdle ==
  /\ query = [filters |-> <<>>, search |-> Null, includeDeleted |-> FALSE,
              onlyDeleted |-> FALSE]
  /\ selected = [step |-> 0, ident |-> {}, params |-> {}, mongo |-> {}, mongoErr |-> FALSE]

NoCall ==
  [pc |-> "idle", op |-> "", crit |-> <<>>, other |-> <<>>, nilArg |-> FALSE,
   clone |-> [ref |-> "none", criteria |-> <<>>],
   ret |-> [ref |-> "none", criteria |-> <<>>]]

\* A slice: the backing array it points into (Nil for a nil slice) and its
\* length; the capacity is the length of the array.
Slice(ref, len) == [ref |-> ref, len |-> len]

NilSlice == Slice(Nil, 0)

\* The zero value QueryParams{}.
ZeroQueryParams ==
  [page |-> 0, pageSize |-> 0, offset |-> 0, limit |-> 0,
   computedOffset |-> 0, computedLimit |-> 0, search |-> Null,
   includeDeleted |-> FALSE, onlyDeleted |-> FALSE,
   sort |-> NilSlice, filters |-> NilSlice, preloads |-> NilSlice]

CloneIdle ==
  /\ heap = << >>
  /\ qpOrig = ZeroQueryParams
  /\ qpClone = ZeroQueryParams
  /\ edits = [cloned |-> FALSE, n |-> 0, through |-> ""]

RaceIdle == begins = << >>

BuilderIdle ==
  /\ receiver = <<>>
  /\ argument = <<>>
  /\ original = [receiver |-> <<>>, argument |-> <<>>]
  /\ calls = [g \in 1..MaxCalls |-> NoCall]

(***************************************************************************)
(* SpecUow: one Unit-of-Work instance, used by one caller at a time.       *)
(***************************************************************************)
\* The identifiers callers pass: by primary key and by a column value.
Identifiers == { Equal("id", i) : i \in Ids } \cup { Equal("val", v) : v \in Vals }

\* Entities callers pass: id 0 is the zero value (no key yet).
NewEntities == { Entity(i, v, FALSE) : i \in 0..MaxId, v \in Vals }

InitUow ==
  /\ backend \in {"postgres", "mongo"}
  /\ tx = Nil
  /\ committed = {}
  /\ txView = << >>
  /\ last = Result("New", Null, ErrNone, {})
  /\ PageIdle
  /\ FilterIdle
  /\ BuilderIdle
  /\ CloneIdle
  /\ RaceIdle

NextUow ==
  \/ PgBeginTransaction
  \/ PgCommitTransaction
  \/ PgRollbackTransaction
  \/ MongoBeginTransaction
  \/ MongoCommitTransaction
  \/ MongoRollbackTransaction
  \/ \E e \in NewEntities : PgInsert(e)
  \/ \E i \in Ids : PgFindOneById(i)
  \/ \E i \in Identifiers, e \in NewEntities : PgUpdate(i, e)
  \/ \E i \in Identifiers : PgSoftDelete(i)
  \/ \E i \in Identifiers : PgHardDelete(i)
  \/ \E i \in Identifiers : PgRestore(i)
  \/ PgGetTrashed

SpecUow == InitUow /\ [][NextUow]_vars

(***************************************************************************)
(* Properties of the transaction state machine                             *)
(***************************************************************************)
\* What a read made now through the instance sees.
Visible == Rows(getDB)

IsCall(op) == last'.op = op

\* C1: BeginTransaction on an instance that already has an active transaction
\* returns "transaction already in progress", opens no storage transaction and
\* leaves the active transaction in place, on both orchestrators.
C1_BeginWhileActiveRejected ==
  [][ (tx # Nil /\ IsCall("BeginTransaction"))
        => /\ last'.err = ErrInProgress
           /\ tx' = tx
           /\ txView' = txView
           /\ committed' = committed ]_vars

C1_Witness ==
  /\ backend = "mongo"
  /\ tx # Nil
  /\ last.op = "BeginTransaction"
  /\ last.err = ErrInProgress

\* C2: a Commit or Rollback issued while a transaction is active always leaves
\* the instance without a transaction (also when the storage commit failed);
\* in that state BeginTransaction is not refused by the instance (it succeeds
\* and installs a transaction unless the storage itself fails to open one) and
\* CommitTransaction fails with "no active transaction to commit".
C2_CommitRollbackEndTransaction ==
  [][ /\ (tx # Nil /\ (IsCall("CommitTransaction") \/ IsCall("RollbackTransaction")))
           => (tx' = Nil /\ tx \notin DOMAIN txView')
      /\ (tx = Nil /\ IsCall("BeginTransaction"))
           => /\ last'.err \in {ErrNone, ErrStorage}
              /\ (last'.err = ErrNone) <=> (tx' # Nil /\ tx' \in DOMAIN txView')
      /\ (tx = Nil /\ IsCall("CommitTransaction"))
           => (last'.err = ErrNoActive /\ tx' = Nil) ]_vars

C2_Witness ==
  /\ tx = Nil
  /\ last.op = "CommitTransaction"
  /\ last.err = ErrStorage

\* C3: while a transaction is active no write reaches the committed rows;
\* after RollbackTransaction reads see exactly the rows committed before, and
\* after a successful CommitTransaction they see exactly the rows the
\* transaction saw, with all its writes.
C3_TransactionVisibility ==
  [][ /\ (tx # Nil /\ tx' # Nil) => committed' = committed
      /\ (tx # Nil /\ IsCall("RollbackTransaction"))
           => (Visible' = committed /\ committed' = committed)
      /\ (tx # Nil /\ IsCall("CommitTransaction") /\ last'.err = ErrNone)
           => (Visible' = txView[tx] /\ committed' = txView[tx])
      /\ (IsCall("FindOneById") \/ IsCall("GetTrashed")) => last'.ret \subseteq Visible' ]_vars

C3_Witness ==
  /\ backend = "postgres"
  /\ tx # Nil
  /\ txView[tx] # committed
  /\ last.op \in {"Insert", "Update", "SoftDelete"}

\* C4: without an active transaction CommitTransaction returns "no active
\* transaction to commit" and RollbackTransaction returns silently; neither
\* changes the transaction state or the stored rows.
C4_NoTransactionCommitRollback ==
  [][ (tx = Nil /\ (IsCall("CommitTransaction") \/ IsCall("RollbackTransaction")))
        => /\ last'.err = (IF IsCall("CommitTransaction") THEN ErrNoActive ELSE ErrNone)
           /\ tx' = Nil
           /\ txView' = txView
           /\ committed' = committed ]_vars

C4_Witness ==
  /\ committed # {}
  /\ tx = Nil
  /\ last.op = "CommitTransaction"
  /\ last.err = ErrNoActive

(***************************************************************************)
(* Soft-delete round trip                                                  *)
(***************************************************************************)
Live(rows, id) == \E r \in rows : r.id = id /\ ~r.deleted
Trashed(rows, id) == \E r \in rows : r.id = id /\ r.deleted
RowOf(rows, id) == CHOOSE r \in rows : r.id = id

\* C5: for an inserted (live) entity E, SoftDelete(id=E) succeeds and returns
\* E as it was before the deletion; while E is trashed FindOneById(E) fails
\* with not-found, GetTrashed() contains E and Restore(id=E) succeeds; after
\* the restore E is live and FindOneById(E) returns it.
C5_SoftDeleteRoundTrip ==
  [][ \A e \in Ids :
        /\ (IsCall("Insert") /\ last'.err = ErrNone /\ \E r \in last'.ret : r.id = e)
             => Live(Visible', e)
        /\ (Live(Visible, e) /\ IsCall("SoftDelete") /\ last'.arg = Equal("id", e))
             => /\ last'.err = ErrNone
                /\ last'.ret = { RowOf(Visible, e) }
                /\ Trashed(Visible', e)
        /\ (Trashed(Visible, e) /\ IsCall("FindOneById") /\ last'.arg = e)
             => last'.err = ErrRecordNotFound
        /\ (Trashed(Visible, e) /\ IsCall("GetTrashed"))
             => RowOf(Visible, e) \in last'.ret
        /\ (Trashed(Visible, e) /\ IsCall("Restore") /\ last'.arg = Equal("id", e))
             => /\ last'.err = ErrNone
                /\ Live(Visible', e)
                /\ last'.ret = { RowOf(Visible', e) }
        /\ (Live(Visible, e) /\ IsCall("FindOneById") /\ last'.arg = e)
             => (last'.err = ErrNone /\ last'.ret = { RowOf(Visible, e) }) ]_vars

C5_Witness ==
  /\ backend = "postgres"
  /\ last.op = "Restore"
  /\ last.err = ErrNone
  /\ \E r \in last.ret : ~r.deleted /\ r \in Visible

(***************************************************************************)
(* Pagination normaliser and QueryParams.PrepareDefaults                   *)
(***************************************************************************)
DefaultPageSize == 50
MaxPageSize == 200

\* Mutant: the page is derived without the "+ 1".
NormalizePagination_ZeroBased(offset, limit, page, pageSize) ==
  IF offset >= 0 /\ limit > 0
  THEN << offset \div limit, limit >>
  ELSE << IF page < 1 THEN 1 ELSE page, IF pageSize < 1 THEN DefaultPageSize ELSE pageSize >>

NormalizePagination(offset, limit, page, pageSize) ==
  IF offset >= 0 /\ limit > 0
  THEN << (offset \div limit) + 1, limit >>
  ELSE << IF page < 1 THEN 1 ELSE page, IF pageSize < 1 THEN DefaultPageSize ELSE pageSize >>

CalculateOffsetLimit(page, pageSize) ==
  LET p == IF page < 1 THEN 1 ELSE page
      ps == IF pageSize < 1 THEN DefaultPageSize ELSE pageSize
  IN << (p - 1) * ps, ps >>

\* Mutant: the page size is not clamped to the maximum.
ValidatePaginationBounds_NoClamp(page, pageSize, maxPageSize) ==
  << IF page < 1 THEN 1 ELSE page, IF pageSize < 1 THEN DefaultPageSize ELSE pageSize >>

ValidatePaginationBounds(page, pageSize, maxPageSize) ==
  LET m == IF maxPageSize <= 0 THEN MaxPageSize ELSE maxPageSize
      p == IF page < 1 THEN 1 ELSE page
      ps == IF pageSize < 1 THEN DefaultPageSize ELSE pageSize
  IN << p, IF ps > m THEN m ELSE ps >>

\* PrepareDefaults: normalise, validate against 200, store page and pageSize,
\* compute the offset and limit.
PrepareDefaults(q) ==
  LET normalized == NormalizePagination(q.offset, q.limit, q.page, q.pageSize)
      validated == ValidatePaginationBounds(normalized[1], normalized[2], MaxPageSize)
      computed == CalculateOffsetLimit(validated[1], validated[2])
  IN [q EXCEPT !.page = validated[1], !.pageSize = validated[2],
               !.computedOffset = computed[1], !.computedLimit = computed[2]]

(***************************************************************************)
(* SpecPage: a request is bound to a QueryParams value and prepared.       *)
(***************************************************************************)
PageInputs == -1..MaxPage
SizeInputs == (-1..MaxSmallSize) \cup {50, 199, 200, 201, 500}
OffsetInputs == (-1..MaxOffset) \cup {200, 450}
LimitInputs == (-1..MaxSmallSize) \cup {200, 201}

\* NewQueryParams() with Offset and Limit set for the page the request names.
OffsetLimitTwin(r) ==
  QueryParams(1, DefaultPageSize, (r.page - 1) * r.pageSize, r.pageSize)

InitPage ==
  /\ request \in { QueryParams(p, ps, o, l) :
                     p \in PageInputs, ps \in SizeInputs, o \in OffsetInputs, l \in LimitInputs }
  /\ qp = request
  /\ qpTwin = OffsetLimitTwin(request)
  /\ prepared = << 0, 0 >>
  /\ UowIdle
  /\ FilterIdle
  /\ BuilderIdle
  /\ CloneIdle
  /\ RaceIdle

PrepareDefaultsQp ==
  /\ prepared[1] < 2
  /\ qp' = PrepareDefaults(qp)
  /\ prepared' = << prepared[1] + 1, prepared[2] >>
  /\ UNCHANGED << request, qpTwin, uowVars, filterVars, builderVars, cloneVars, raceVars >>

PrepareDefaultsTwin ==
  /\ prepared[2] < 1
  /\ qpTwin' = PrepareDefaults(qpTwin)
  /\ prepared' = << prepared[1], prepared[2] + 1 >>
  /\ UNCHANGED << request, qp, uowVars, filterVars, builderVars, cloneVars, raceVars >>

NextPage ==
  \/ PrepareDefaultsQp
  \/ PrepareDefaultsTwin

SpecPage == InitPage /\ [][NextPage]_vars

\* A request by page and page size only, inside the ranges of the equivalence.
PageStyleRequest ==
  /\ request.offset = 0
  /\ request.limit = 0
  /\ request.page \in 1..1000
  /\ request.pageSize \in 1..MaxPageSize

\* C6: for page in [1, 1000] and pageSize in [1, 200], the pipeline run on
\* offset = (page-1)*pageSize, limit = pageSize yields the same page, pageSize,
\* computedOffset and computedLimit as the pipeline run on page and pageSize
\* with no offset and limit, and both are the page asked for.
C6_PaginationEquivalence ==
  (PageStyleRequest /\ prepared[1] >= 1 /\ prepared[2] >= 1)
    => /\ qpTwin.page = qp.page
       /\ qpTwin.pageSize = qp.pageSize
       /\ qpTwin.computedOffset = qp.computedOffset
       /\ qpTwin.computedLimit = qp.computedLimit
       /\ qp.page = request.page
       /\ qp.pageSize = request.pageSize
       /\ qp.computedOffset = qpTwin.offset

C6_Witness ==
  /\ PageStyleRequest
  /\ request.page = MaxPage
  /\ request.pageSize = MaxPageSize
  /\ prepared = << 1, 1 >>
  /\ qpTwin.computedOffset = (MaxPage - 1) * MaxPageSize

BoundsScenario == QueryParams(2, 500, -1, 0)

\* C7 as claimed: Normalize(offset=-1, limit=0, page=2, pageSize=500), then
\* ValidateBounds(200), give page 2 and pageSize 200, and ComputeOffsetLimit
\* gives offset 400, limit 200.
C7_ClaimedOffset400 ==
  (request = BoundsScenario /\ prepared[1] >= 1)
    => /\ qp.page = 2
       /\ qp.pageSize = 200
       /\ qp.computedOffset = 400
       /\ qp.computedLimit = 200

\* C7 amended: the same scenario gives page 2, pageSize 200 (clamped from 500)
\* and offset (2-1)*200 = 200, limit 200.
C7_BoundsClampingScenario ==
  (request = BoundsScenario /\ prepared[1] >= 1)
    => /\ qp.page = 2
       /\ qp.pageSize = 200
       /\ qp.computedOffset = 200
       /\ qp.computedLimit = 200

C7_Witness ==
  /\ request = BoundsScenario
  /\ prepared[1] = 1
  /\ qp.pageSize = MaxPageSize

(***************************************************************************)
(* SpecFilter: one criteria sequence is handed to the relational           *)
(* translator as an identifier, then inside query parameters, then to the  *)
(* document-store translator; each step records the rows it selects from   *)
(* the same table.                                                         *)
(***************************************************************************)
AllRows == { Entity(i, v, d) : i \in Ids, v \in Vals, d \in BOOLEAN }

LogicalOps == {"", LogicalOperatorAnd, LogicalOperatorOr}

WithLogicalOp(c, op) == [c EXCEPT !.logicalOp = op]

\* Leaves: equality on the key and on the value column.
LeafCriteria == { Equal("id", i)[1] : i \in Ids } \cup { Equal("val", MaxVal)[1] }

\* One group criterion: (id = 1 OR val = MaxVal).
GroupCriteria ==
  { FilterCriteria("", "", Null, <<>>, "",
                   << WithLogicalOp(Equal("id", 1)[1], LogicalOperatorOr),
                      Equal("val", MaxVal)[1] >>) }

Criteria == { WithLogicalOp(c, op) : c \in LeafCriteria \cup GroupCriteria, op \in LogicalOps }

CriteriaSeqs == UNION { [1..n -> Criteria] : n \in 0..MaxFilters }

\* Criteria of the set and range operators: built by In, NotIn and Between,
\* and between criteria whose Values hold fewer or more than two entries.
EdgeLeaves ==
  { In("id", <<>>)[1], NotIn("id", <<>>)[1], In("id", << 1 >>)[1], NotIn("id", << 1 >>)[1],
    Between("id", 2, MaxId)[1],
    FilterCriteria("id", FilterOperatorBetween, Null, <<>>, "", <<>>),
    FilterCriteria("id", FilterOperatorBetween, Null, << 1 >>, "", <<>>),
    FilterCriteria("id", FilterOperatorBetween, Null, << 1, 1, MaxId >>, "", <<>>) }

EdgeCriteria == { WithLogicalOp(c, op) : c \in EdgeLeaves, op \in {"", LogicalOperatorOr} }

\* Sequences of one or two criteria holding at least one of them.
EdgeSeqs ==
  { f \in UNION { [1..n -> Criteria \cup EdgeCriteria] : n \in 1..2 } :
      \E i \in 1..Len(f) : f[i] \in EdgeCriteria }

\* A criterion whose operator is none of the known tokens.
FilterOperatorUnknown == "unknown"

UnknownCriteria ==
  { FilterCriteria("id", FilterOperatorUnknown, 1, <<>>, op, <<>>) : op \in LogicalOps }

TaggedLeaves == { WithLogicalOp(c, op) : c \in LeafCriteria, op \in LogicalOps }

\* Sequences of leaves holding at least one criterion with an unknown operator.
UnknownSeqs ==
  { f \in UNION { [1..n -> TaggedLeaves \cup UnknownCriteria] : n \in 1..MaxFilters } :
      \E i \in 1..Len(f) : f[i] \in UnknownCriteria }

InitFilter ==
  /\ query \in { [filters |-> f, search |-> Null, includeDeleted |-> FALSE,
                  onlyDeleted |-> FALSE] : f \in CriteriaSeqs \cup EdgeSeqs \cup UnknownSeqs }
  /\ selected = [step |-> 0, ident |-> {}, params |-> {}, mongo |-> {}, mongoErr |-> FALSE]
  /\ UowIdle
  /\ PageIdle
  /\ BuilderIdle
  /\ CloneIdle
  /\ RaceIdle

\* PostgresUnitOfWork.Count / Exists / FindOneByIdentifier: the query built
\* from the identifier, run on the table.
RelationalApplyIdentifier ==
  /\ selected.step = 0
  /\ selected' = [selected EXCEPT !.step = 1,
                    !.ident = Select(BuildQueryFromIdentifier(query.filters), AllRows)]
  /\ UNCHANGED << query, uowVars, pageVars, builderVars, cloneVars, raceVars >>

\* PostgresUnitOfWork.FindAll: ApplyQueryParams on db.Model(new(T)), run on
\* the table.
RelationalApplyQueryParams(search, includeDeleted, onlyDeleted) ==
  /\ selected.step = 1
  /\ query' = [query EXCEPT !.search = search, !.includeDeleted = includeDeleted,
                            !.onlyDeleted = onlyDeleted]
  /\ selected' = [selected EXCEPT !.step = 2,
                    !.params = Select(ApplyQueryParams(NewStatement, query'), AllRows)]
  /\ UNCHANGED << uowVars, pageVars, builderVars, cloneVars, raceVars >>

\* MongoUnitOfWork.Exists / FindOneByIdentifier: BuildFilterFromIdentifier,
\* then filter["deleted_at"] = {$exists: false}, run on the collection.
MongoBuildFilterFromIdentifier ==
  /\ selected.step = 2
  /\ LET filter == BsonSet(BuildFilterFromIdentifier(query.filters),
                           "deleted_at", DeletedAtExists(FALSE))
     IN selected' = [selected EXCEPT !.step = 3,
                       !.mongoErr = BsonInvalid(filter),
                       !.mongo = IF BsonInvalid(filter) THEN {}
                                 ELSE BsonSelect(filter, AllRows)]
  /\ UNCHANGED << query, uowVars, pageVars, builderVars, cloneVars, raceVars >>

NextFilter ==
  \/ RelationalApplyIdentifier
  \/ \E search \in {Null} \cup Ids, includeDeleted \in BOOLEAN, onlyDeleted \in BOOLEAN :
       RelationalApplyQueryParams(search, includeDeleted, onlyDeleted)
  \/ MongoBuildFilterFromIdentifier

SpecFilter == InitFilter /\ [][NextFilter]_vars

(***************************************************************************)
(* The combination algorithm as documented: strict left-to-right           *)
(* accumulation, a group standing for the accumulation of its members.     *)
(***************************************************************************)
RECURSIVE LeftToRight(_, _, _)
LeftToRight(filters, i, r) ==
  LET c == filters[i]
      holds == IF Len(c.group) > 0 THEN LeftToRight(c.group, Len(c.group), r)
               ELSE EvalCond(SingleFilterCond(c), r)
  IN IF i = 0 THEN TRUE
     ELSE IF i = 1 THEN holds
     ELSE IF filters[i-1].logicalOp = LogicalOperatorOr
          THEN LeftToRight(filters, i - 1, r) \/ holds
          ELSE LeftToRight(filters, i - 1, r) /\ holds

Accumulated(filters) ==
  { r \in AllRows : ~r.deleted /\ LeftToRight(filters, Len(filters), r) }

\* C8: for every criteria sequence the rows the relational translator selects
\* are exactly the rows satisfying the left-to-right accumulation
\* P0 = base AND c0, Pi = (Pi-1 OR ci) if c(i-1) is tagged OR, else
\* (Pi-1 AND ci).
C8_LeftToRightAccumulation ==
  (selected.step >= 1 /\ \A i \in 1..Len(query.filters) : query.filters[i] \in Criteria)
    => selected.ident = Accumulated(query.filters)

\* The predicate the relational translator itself builds for the filters and
\* the search term, before any visibility condition.
FilterPredicate(params, r) ==
  /\ EvalWhere(ApplyFilters(NewStatement, params.filters).where, r)
  /\ params.search # Null => params.search \in Digits(r.id)

VisibilityMode(params, r) ==
  IF params.onlyDeleted THEN r.deleted
  ELSE IF params.includeDeleted THEN TRUE
  ELSE ~r.deleted

\* C9: for every filter sequence, search term and combination of the two
\* flags, the relational translator selects exactly the rows that satisfy the
\* combined filter predicate and the one applicable visibility mode; so no
\* deleted row in the default mode and no live row in only-deleted mode.
C9_VisibilityModeExact ==
  selected.step >= 2
    => selected.params = { r \in AllRows : FilterPredicate(query, r) /\ VisibilityMode(query, r) }

\* C10: for every criteria sequence the document-store translator selects the
\* same rows as the relational translator.
C10_DocumentStoreSameSelection ==
  selected.step >= 3 => selected.mongo = selected.ident

LiveRows == { r \in AllRows : ~r.deleted }

\* C11: on both backends the criterion built by In(field, []) selects no
\* record and the criterion built by NotIn(field, []) selects every record.
C11_EmptySetEdgeCases ==
  selected.step >= 3
    => /\ query.filters = In("id", <<>>) => (selected.ident = {} /\ selected.mongo = {})
       /\ query.filters = NotIn("id", <<>>)
            => (selected.ident = LiveRows /\ selected.mongo = LiveRows)

(***************************************************************************)
(* SpecBuilder: goroutines call the mutators of one IdentifierBuilder      *)
(* (the receiver), And / Or with one other builder as argument.  A builder *)
(* is its criteria buffer; a call works on buffers of its own unless it    *)
(* holds a reference to the receiver's.                                    *)
(***************************************************************************)
BuilderAtoms == { Equal("x", 1)[1], Equal("y", 2)[1] }

\* What a chain of builder calls can hold: any tag on an element that has a
\* successor, none on the last.
BuiltSeqs ==
  { f \in UNION { [1..n -> { WithLogicalOp(c, op) : c \in BuilderAtoms, op \in LogicalOps }] :
                    n \in 0..MaxBuilt } :
      Len(f) > 0 => f[Len(f)].logicalOp = "" }

ArgBuilders ==
  { <<>>, Equal("y", 2),
    << WithLogicalOp(Equal("y", 2)[1], LogicalOperatorOr), Equal("x", 1)[1] >> }

\* Mutant: newBuilder.criteria = ib.criteria, the clone shares the buffer.
clone_Aliases(ib) == [ref |-> "recv", criteria |-> ib]

\* clone: a new buffer of len(ib.criteria) cells, filled by copy.
clone(ib) == [ref |-> "own", criteria |-> ib]

\* The criteria a buffer reference leads to.
Deref(b) == IF b.ref = "recv" THEN receiver ELSE b.criteria

\* ToFilterCriteria: a copy of the criteria (nil when there are none).
ToFilterCriteria(criteria) == [i \in 1..Len(criteria) |-> criteria[i]]

\* Mutant: the tag goes to the first element.
tagLast_TagsFirst(criteria, logicalOp) ==
  IF Len(criteria) > 0 THEN [criteria EXCEPT ![1].logicalOp = logicalOp] ELSE criteria

\* And / Or: criteria[lastIndex].LogicalOp = LogicalOperatorAnd / Or
tagLast(criteria, logicalOp) ==
  IF Len(criteria) > 0
  THEN [criteria EXCEPT ![Len(criteria)].logicalOp = logicalOp]
  ELSE criteria

\* Mutant: And / Or tag ib.criteria instead of newBuilder.criteria.
tagTarget_Receiver(b) == "recv"

\* The buffer And / Or write the tag to: newBuilder.criteria.
tagTarget(b) == b.ref

InitBuilder ==
  /\ receiver \in BuiltSeqs
  /\ argument \in ArgBuilders
  /\ original = [receiver |-> ToFilterCriteria(receiver),
                 argument |-> ToFilterCriteria(argument)]
  /\ calls = [g \in 1..MaxCalls |-> NoCall]
  /\ UowIdle
  /\ PageIdle
  /\ FilterIdle
  /\ CloneIdle
  /\ RaceIdle

\* A goroutine enters Equal(field, value): addCriteria with the new criterion.
CallEqual(g, c) ==
  /\ calls[g].pc = "idle"
  /\ calls' = [calls EXCEPT ![g].pc = "clone", ![g].op = "Equal", ![g].crit = << c >>]
  /\ UNCHANGED << receiver, argument, original, uowVars, pageVars, filterVars, cloneVars, raceVars >>

\* A goroutine enters And(identifier) or Or(identifier) and reads the
\* argument's criteria; with none it returns the receiver itself.
\* Mutant: And and Or without criteria to add return a clone.
sameReceiver_Clones(ib) == clone(ib)

\* return ib
sameReceiver(ib) == [ref |-> "recv", criteria |-> <<>>]

CallCombine(g, logicalOp) ==
  /\ calls[g].pc = "idle"
  /\ LET otherCriteria == ToFilterCriteria(argument) IN
     calls' = [calls EXCEPT
                 ![g].op = logicalOp,
                 ![g].other = otherCriteria,
                 ![g].pc = IF Len(otherCriteria) = 0 THEN "done" ELSE "clone",
                 ![g].ret = IF Len(otherCriteria) = 0 THEN sameReceiver(receiver) ELSE @]
  /\ UNCHANGED << receiver, argument, original, uowVars, pageVars, filterVars, cloneVars, raceVars >>

\* A goroutine enters And(nil) / Or(nil): the receiver is returned at once.
CallCombineNil(g, logicalOp) ==
  /\ calls[g].pc = "idle"
  /\ calls' = [calls EXCEPT ![g].op = logicalOp, ![g].nilArg = TRUE, ![g].pc = "done",
                            ![g].ret = sameReceiver(receiver)]
  /\ UNCHANGED << receiver, argument, original, uowVars, pageVars, filterVars, cloneVars, raceVars >>

\* Reset: a fresh empty builder.
CallReset(g) ==
  /\ calls[g].pc = "idle"
  /\ calls' = [calls EXCEPT ![g].pc = "done", ![g].op = "Reset",
                            ![g].ret = [ref |-> "own", criteria |-> <<>>]]
  /\ UNCHANGED << receiver, argument, original, uowVars, pageVars, filterVars, cloneVars, raceVars >>

\* newBuilder := ib.clone()
Clone(g) ==
  /\ calls[g].pc = "clone"
  /\ calls' = [calls EXCEPT ![g].clone = clone(receiver),
                            ![g].pc = IF calls[g].op = "Equal" THEN "append" ELSE "tag"]
  /\ UNCHANGED << receiver, argument, original, uowVars, pageVars, filterVars, cloneVars, raceVars >>

\* newBuilder.criteria[lastIndex].LogicalOp = ...
Tag(g) ==
  /\ calls[g].pc = "tag"
  /\ IF tagTarget(calls[g].clone) = "recv"
     THEN /\ receiver' = tagLast(receiver, calls[g].op)
          /\ calls' = [calls EXCEPT ![g].pc = "append"]
     ELSE /\ calls' = [calls EXCEPT ![g].pc = "append",
                                    ![g].clone.criteria = tagLast(@, calls[g].op)]
          /\ UNCHANGED receiver
  /\ UNCHANGED << argument, original, uowVars, pageVars, filterVars, cloneVars, raceVars >>

\* newBuilder.criteria = append(newBuilder.criteria, ...): the clone has no
\* spare capacity, so append allocates; then the builder is returned.
AppendCriteria(g) ==
  /\ calls[g].pc = "append"
  /\ LET added == IF calls[g].op = "Equal" THEN calls[g].crit ELSE calls[g].other IN
     calls' = [calls EXCEPT ![g].pc = "done",
                            ![g].ret = [ref |-> "own",
                                        criteria |-> Deref(calls[g].clone) \o added]]
  /\ UNCHANGED << receiver, argument, original, uowVars, pageVars, filterVars, cloneVars, raceVars >>

NextBuilder ==
  \E g \in 1..MaxCalls :
    \/ \E c \in BuilderAtoms : CallEqual(g, c)
    \/ \E logicalOp \in {LogicalOperatorAnd, LogicalOperatorOr} : CallCombine(g, logicalOp)
    \/ \E logicalOp \in {LogicalOperatorAnd, LogicalOperatorOr} : CallCombineNil(g, logicalOp)
    \/ CallReset(g)
    \/ Clone(g)
    \/ Tag(g)
    \/ AppendCriteria(g)

SpecBuilder == InitBuilder /\ [][NextBuilder]_vars

Done(g) == calls[g].pc = "done"

\* What ToFilterCriteria reports for the builder a finished call returned.
Returned(g) == ToFilterCriteria(Deref(calls[g].ret))

\* C12: no builder method changes the criteria sequence that
\* ToFilterCriteria reports for the receiver or for the builder passed as
\* argument: at every point of every call both report what they reported
\* before.
C12_BuilderImmutability ==
  /\ ToFilterCriteria(receiver) = original.receiver
  /\ ToFilterCriteria(argument) = original.argument

C12_Witness ==
  /\ \E g \in 1..MaxCalls : Done(g) /\ calls[g].op = LogicalOperatorOr
  /\ \E g \in 1..MaxCalls : Done(g) /\ calls[g].op = "Equal"
  /\ Len(original.receiver) = MaxBuilt
  /\ Len(original.argument) > 0

\* The sequence a call working alone on the original receiver returns.
Expected(call) ==
  IF call.op = "Equal" THEN original.receiver \o call.crit
  ELSE IF call.op = "Reset" THEN <<>>
  ELSE IF call.nilArg \/ Len(original.argument) = 0 THEN original.receiver
  ELSE tagLast(original.receiver, call.op) \o original.argument

\* C13: for concurrent mutator calls on the same receiver, under every
\* interleaving, each returned builder holds exactly the receiver's criteria
\* followed by what that call added, nothing from another call, and the
\* receiver's own sequence is unchanged.
C13_ConcurrentCallsIndependent ==
  /\ \A g \in 1..MaxCalls : Done(g) => Returned(g) = Expected(calls[g])
  /\ receiver = original.receiver

\* One call has returned while the other, entered with another criterion,
\* has cloned the receiver and not yet appended.
C13_Witness ==
  /\ Done(2) /\ calls[2].op = "Equal"
  /\ calls[1].pc = "append" /\ calls[1].op = "Equal"
  /\ calls[1].crit # calls[2].crit
  /\ Len(Returned(2)) = MaxBuilt + 1

\* C14: for a non-empty receiver A and a non-empty argument B, A.And(B)
\* (resp. A.Or(B)) holds A's criteria followed by B's, flattened: length
\* len(A)+len(B), the last element from A tagged AND (resp. OR), every other
\* element as it was; Equal("x",1).And(Equal("y",2)) has 2 criteria, the
\* first tagged AND and the second untagged.
C14_LogicalOperatorPlacement ==
  \A g \in 1..MaxCalls :
    LET A == original.receiver
        B == original.argument
        R == Returned(g)
    IN (Done(g) /\ calls[g].op \in {LogicalOperatorAnd, LogicalOperatorOr}
          /\ ~calls[g].nilArg /\ Len(A) > 0 /\ Len(B) > 0)
         => /\ Len(R) = Len(A) + Len(B)
            /\ \A i \in 1..(Len(A) - 1) : R[i] = A[i]
            /\ R[Len(A)] = [A[Len(A)] EXCEPT !.logicalOp = calls[g].op]
            /\ \A j \in 1..Len(B) : R[Len(A) + j] = B[j]
            /\ (A = Equal("x", 1) /\ B = Equal("y", 2) /\ calls[g].op = LogicalOperatorAnd)
                 => R = << WithLogicalOp(Equal("x", 1)[1], LogicalOperatorAnd),
                           Equal("y", 2)[1] >>

C14_Witness ==
  /\ original.receiver = Equal("x", 1)
  /\ original.argument = Equal("y", 2)
  /\ Done(1) /\ calls[1].op = LogicalOperatorAnd
  /\ Returned(1)[1].logicalOp = LogicalOperatorAnd
  /\ Returned(1)[2].logicalOp = ""

(***************************************************************************)
(* SpecData: the data operations of the Unit of Work on a table that       *)
(* already holds rows, outside a transaction.                              *)
(***************************************************************************)
\* Tables: at most one row per primary key.
Tables ==
  { t \in SUBSET AllRows : \A r1 \in t, r2 \in t : r1.id = r2.id => r1 = r2 }

\* ORDER BY id ASC OFFSET offset LIMIT limit
Window(rows, offset, limit) ==
  { r \in rows :
      LET rank == Cardinality({ o \in rows : o.id <= r.id })
      IN rank > offset /\ rank <= offset + limit }

\* Mutant: the count runs on the filtered query.
CountQuery_KeepsConditions(filteredQuery) == filteredQuery

\* filteredQuery.Session(&gorm.Session{NewDB: true}): a new statement with
\* none of the conditions (and not Unscoped).
CountQuery(filteredQuery) == NewStatement

\* FindAllWithPagination: PrepareDefaults, ApplyQueryParams, Count on the
\* count query, then Offset / Limit / Find on the filtered query.
PgPage(params, rows) ==
  LET prepared_ == PrepareDefaults(params)
      filteredQuery == ApplyQueryParams(NewStatement, prepared_)
      total == Cardinality(Select(CountQuery(filteredQuery), rows))
      entities == Window(Select(filteredQuery, rows),
                         prepared_.computedOffset, prepared_.computedLimit)
  IN [params |-> prepared_, entities |-> entities, total |-> total]

PgFindAllWithPagination(params) ==
  /\ backend = "postgres"
  /\ LET page == PgPage(params, Rows(getDB))
     IN last' = ResultWithTotal("FindAllWithPagination", page.params, ErrNone,
                                page.entities, page.total)
  /\ UNCHANGED << backend, tx, committed, txView, pageVars, filterVars, builderVars, cloneVars, raceVars >>

\* Create(&entities): one INSERT of all the rows.  Keys are generated for the
\* zero ones; the statement fails as a whole on a key that is taken.
RECURSIVE CreateAll(_, _, _)
CreateAll(entities, i, acc) ==
  IF i > Len(entities) THEN acc
  ELSE LET id == IF entities[i].id = 0 THEN MaxRowId(acc.rows) + 1 ELSE entities[i].id
           created == [entities[i] EXCEPT !.id = id]
       IN CreateAll(entities, i + 1,
                    [rows |-> acc.rows \cup {created},
                     created |-> acc.created \cup {created},
                     duplicate |-> acc.duplicate \/ (\E r \in acc.rows : r.id = id)])

PgBulkInsert(entities) ==
  /\ backend = "postgres"
  /\ IF Len(entities) = 0
     THEN /\ last' = Result("BulkInsert", entities, ErrNone, {})
          /\ UNCHANGED << committed, txView >>
     ELSE LET rows == Rows(getDB)
              all == CreateAll(entities, 1, [rows |-> rows, created |-> {}, duplicate |-> FALSE])
          IN /\ \A r \in all.rows : r.id \in Ids
             /\ IF all.duplicate
                THEN /\ last' = Result("BulkInsert", entities, ErrDuplicate, {})
                     /\ UNCHANGED << committed, txView >>
                ELSE /\ WriteRows(getDB, all.rows)
                     /\ last' = Result("BulkInsert", entities, ErrNone, all.created)
  /\ UNCHANGED << backend, tx, pageVars, filterVars, builderVars, cloneVars, raceVars >>

\* for i, entity := range entities { db.Save(&entity) }
RECURSIVE SaveAll(_, _, _)
SaveAll(entities, i, acc) ==
  IF i > Len(entities) THEN acc
  ELSE SaveAll(entities, i + 1,
               [rows |-> Save(acc.rows, entities[i]),
                saved |-> acc.saved \cup {SavedEntity(acc.rows, entities[i])}])

PgBulkUpdate(entities) ==
  /\ backend = "postgres"
  /\ LET rows == Rows(getDB)
         all == SaveAll(entities, 1, [rows |-> rows, saved |-> {}])
     IN /\ \A r \in all.rows : r.id \in Ids
        /\ WriteRows(getDB, all.rows)
        /\ last' = Result("BulkUpdate", entities, ErrNone, all.saved)
  /\ UNCHANGED << backend, tx, pageVars, filterVars, builderVars, cloneVars, raceVars >>

\* for _, identifier := range identifiers { query.Delete(new(T)) }
RECURSIVE SoftDeleteAll(_, _, _)
SoftDeleteAll(identifiers, i, rows) ==
  IF i > Len(identifiers) THEN rows
  ELSE SoftDeleteAll(identifiers, i + 1,
                     SoftDeleteRows(BuildQueryFromIdentifier(identifiers[i]), rows))

PgBulkSoftDelete(identifiers) ==
  /\ backend = "postgres"
  /\ WriteRows(getDB, SoftDeleteAll(identifiers, 1, Rows(getDB)))
  /\ last' = Result("BulkSoftDelete", identifiers, ErrNone, {})
  /\ UNCHANGED << backend, tx, pageVars, filterVars, builderVars, cloneVars, raceVars >>

\* for _, identifier := range identifiers { query.Unscoped().Delete(new(T)) }
RECURSIVE HardDeleteAll(_, _, _)
HardDeleteAll(identifiers, i, rows) ==
  IF i > Len(identifiers) THEN rows
  ELSE HardDeleteAll(identifiers, i + 1,
                     rows \ Select(GormUnscoped(BuildQueryFromIdentifier(identifiers[i])), rows))

PgBulkHardDelete(identifiers) ==
  /\ backend = "postgres"
  /\ WriteRows(getDB, HardDeleteAll(identifiers, 1, Rows(getDB)))
  /\ last' = Result("BulkHardDelete", identifiers, ErrNone, {})
  /\ UNCHANGED << backend, tx, pageVars, filterVars, builderVars, cloneVars, raceVars >>

\* The slices callers pass to the bulk operations.
BulkOf(S) == UNION { [1..n -> S] : n \in 0..MaxBulk }

\* The query parameters callers pass: pagination, filters and visibility.
PageQueries ==
  { [page |-> p, pageSize |-> ps, offset |-> 0, limit |-> 0,
     computedOffset |-> 0, computedLimit |-> 0,
     filters |-> f, search |-> Null, includeDeleted |-> inc, onlyDeleted |-> only] :
      p \in 1..2, ps \in 1..MaxId, f \in {<<>>} \cup Identifiers,
      inc \in BOOLEAN, only \in BOOLEAN }

InitData ==
  /\ backend = "postgres"
  /\ tx = Nil
  /\ committed \in Tables
  /\ txView = << >>
  /\ last = Result("New", Null, ErrNone, {})
  /\ PageIdle
  /\ FilterIdle
  /\ BuilderIdle
  /\ CloneIdle
  /\ RaceIdle

NextData ==
  \/ \E params \in PageQueries : PgFindAllWithPagination(params)
  \/ \E entities \in BulkOf(NewEntities) : PgBulkInsert(entities)
  \/ \E entities \in BulkOf(NewEntities) : PgBulkUpdate(entities)
  \/ \E identifiers \in BulkOf(Identifiers) : PgBulkSoftDelete(identifiers)
  \/ \E identifiers \in BulkOf(Identifiers) : PgBulkHardDelete(identifiers)

SpecData == InitData /\ [][NextData]_vars

Outcome(rows, err) == [rows |-> rows, err |-> err]

Singular(op, rows, x) ==
  CASE op = "BulkInsert" ->
         LET id == IF x.id = 0 THEN MaxRowId(rows) + 1 ELSE x.id
         IN IF \E r \in rows : r.id = id
            THEN Outcome(rows, ErrDuplicate)
            ELSE Outcome(rows \cup {[x EXCEPT !.id = id]}, ErrNone)
    [] op = "BulkUpdate" ->
         IF FindOneByIdentifier(Equal("id", x.id), rows) = {}
         THEN Outcome(rows, ErrRecordNotFound)
         ELSE Outcome(Save(rows, x), ErrNone)
    [] op = "BulkSoftDelete" ->
         IF FindOneByIdentifier(x, rows) = {}
         THEN Outcome(rows, ErrRecordNotFound)
         ELSE Outcome(SoftDeleteRows(BuildQueryFromIdentifier(x), rows), ErrNone)
    [] op = "BulkHardDelete" ->
         LET q == GormUnscoped(BuildQueryFromIdentifier(x))
         IN IF Select(q, rows) = {}
            THEN Outcome(rows, ErrRecordNotFound)
            ELSE Outcome(rows \ Select(q, rows), ErrNone)

\* The singular operation applied to the elements in order, stopping at the
\* first failure.
RECURSIVE OneByOne(_, _, _, _)
OneByOne(op, elements, i, rows) ==
  IF i > Len(elements) THEN Outcome(rows, ErrNone)
  ELSE LET o == Singular(op, rows, elements[i])
       IN IF o.err # ErrNone THEN o ELSE OneByOne(op, elements, i + 1, o.rows)

BulkOps == {"BulkInsert", "BulkUpdate", "BulkSoftDelete", "BulkHardDelete"}

\* C16: a bulk operation leaves the table as the singular operation applied
\* to the elements one by one, stopping at the first failure, would leave it,
\* and returns that failure.
C16_BulkAsOneByOne ==
  [][ last'.op \in BulkOps
        => LET o == OneByOne(last'.op, last'.arg, 1, committed)
           IN committed' = o.rows /\ last'.err = o.err ]_vars

(***************************************************************************)
(* SpecCrud: the singular write operations of both orchestrators on a      *)
(* table / collection that already holds records, outside a transaction.   *)
(***************************************************************************)
getSessionContext == IF tx # Nil THEN tx ELSE Nil

\* collection.FindOne(filter): the first matching document.  Documents come
\* back in insertion order, and keys grow with insertion.
MongoFindOne(filter, rows) == First(BsonSelect(filter, rows))

\* collection.UpdateOne(filter, update): the update applied to the first
\* matching document.
UpdateOne(filter, rows, deleted) ==
  LET hit == MongoFindOne(filter, rows)
  IN { IF r \in hit THEN [r EXCEPT !.deleted = deleted] ELSE r : r \in rows }

\* BuildFilterFromIdentifier, then filter["deleted_at"] = {$exists: false}
LiveFilter(identifier) ==
  BsonSet(BuildFilterFromIdentifier(identifier), "deleted_at", DeletedAtExists(FALSE))

MongoFindOneByIdentifier(identifier, rows) == MongoFindOne(LiveFilter(identifier), rows)

\* collection.UpdateOne(filter, {$set: entity}): the fields of the entity are
\* written on the first document the filter matches; deleted_at is omitted
\* from the update when the entity carries none.
SetEntity(filter, rows, entity) ==
  LET hit == MongoFindOne(filter, rows)
  IN { IF r \in hit
       THEN [r EXCEPT !.id = entity.id, !.val = entity.val,
                      !.deleted = IF entity.deleted THEN TRUE ELSE @]
       ELSE r : r \in rows }

\* MongoUnitOfWork.Update: FindOneByIdentifier, then UpdateOne with $set on the
\* identifier filter restricted to live documents.  The entities passed carry
\* an id of the table that no other document holds.
MongoUpdate(identifier, entity) ==
  /\ backend = "mongo"
  /\ LET rows == Rows(getSessionContext)
         found == MongoFindOneByIdentifier(identifier, rows)
         filter == LiveFilter(identifier)
     IN IF found = {}
        THEN /\ last' = Result("Update", identifier, ErrRecordNotFound, {})
             /\ UNCHANGED << committed, txView >>
        ELSE /\ entity.id \in Ids
             /\ \A r \in rows \ found : r.id # entity.id
             /\ WriteRows(getSessionContext, SetEntity(filter, rows, entity))
             /\ last' = Result("Update", identifier, ErrNone, {entity})
  /\ UNCHANGED << backend, tx, pageVars, filterVars, builderVars, cloneVars, raceVars >>

MongoSoftDelete(identifier) ==
  /\ backend = "mongo"
  /\ LET rows == Rows(getSessionContext)
         entity == MongoFindOneByIdentifier(identifier, rows)
         filter == LiveFilter(identifier)
     IN IF entity = {}
        THEN /\ last' = Result("SoftDelete", identifier, ErrRecordNotFound, {})
             /\ UNCHANGED << committed, txView >>
        ELSE /\ WriteRows(getSessionContext, UpdateOne(filter, rows, TRUE))
             /\ last' = Result("SoftDelete", identifier, ErrNone, entity)
  /\ UNCHANGED << backend, tx, pageVars, filterVars, builderVars, cloneVars, raceVars >>

\* Restore: FindOne with deleted_at present, $unset on the first such document,
\* then FindOneByIdentifier(identifier) for the entity to return.
MongoRestore(identifier) ==
  /\ backend = "mongo"
  /\ LET rows == Rows(getSessionContext)
         filter == BsonSet(BuildFilterFromIdentifier(identifier),
                           "deleted_at", DeletedAtExists(TRUE))
         entity == MongoFindOne(filter, rows)
         restored == UpdateOne(filter, rows, FALSE)
     IN IF entity = {}
        THEN /\ last' = Result("Restore", identifier, ErrRecordNotFound, {})
             /\ UNCHANGED << committed, txView >>
        ELSE LET restoredEntity == MongoFindOneByIdentifier(identifier, restored)
             IN /\ WriteRows(getSessionContext, restored)
                /\ last' = Result("Restore", identifier,
                                  IF restoredEntity = {} THEN ErrRecordNotFound ELSE ErrNone,
                                  restoredEntity)
  /\ UNCHANGED << backend, tx, pageVars, filterVars, builderVars, cloneVars, raceVars >>

InitCrud ==
  /\ backend \in {"postgres", "mongo"}
  /\ tx = Nil
  /\ committed \in Tables
  /\ txView = << >>
  /\ last = Result("New", Null, ErrNone, {})
  /\ PageIdle
  /\ FilterIdle
  /\ BuilderIdle
  /\ CloneIdle
  /\ RaceIdle

NextCrud ==
  \/ \E e \in NewEntities : PgInsert(e)
  \/ \E i \in Identifiers, e \in NewEntities : PgUpdate(i, e)
  \/ \E i \in Identifiers : PgSoftDelete(i)
  \/ \E i \in Identifiers : PgHardDelete(i)
  \/ \E i \in Identifiers : PgRestore(i)
  \/ \E i \in Identifiers, e \in NewEntities : MongoUpdate(i, e)
  \/ \E i \in Identifiers : MongoSoftDelete(i)
  \/ \E i \in Identifiers : MongoRestore(i)

SpecCrud == InitCrud /\ [][NextCrud]_vars

\* Does the record have the value the identifier asks for?
Matches(identifier, r) == FieldValue(r, identifier[1].field) = identifier[1].value

LiveMatches(identifier, rows) == { r \in rows : ~r.deleted /\ Matches(identifier, r) }

DeletedMatches(identifier, rows) == { r \in rows : r.deleted /\ Matches(identifier, r) }

\* C17: Update and SoftDelete with an identifier that matches no non-deleted
\* record (no record, or only soft-deleted ones) return record not found and
\* leave every stored record as it was.
C17_NotFoundLeavesRecordsUnchanged ==
  [][ (last'.op \in {"Update", "SoftDelete"} /\ LiveMatches(last'.arg, committed) = {})
        => (last'.err = ErrRecordNotFound /\ committed' = committed) ]_vars

\* Update was called with an identifier that matches only a soft-deleted record
\* and returned record not found.
C17_Witness ==
  /\ last.op = "Update"
  /\ last.err = ErrRecordNotFound
  /\ LiveMatches(last.arg, committed) = {}
  /\ DeletedMatches(last.arg, committed) # {}

\* C18: Restore with an identifier that matches no record carrying the
\* deletion marker fails and changes nothing; when Restore succeeds, a matched
\* record that carried the marker is stored without it and is the entity
\* returned.
C18_RestoreNeedsDeletedMatch ==
  [][ last'.op = "Restore"
        => LET deleted == DeletedMatches(last'.arg, committed)
           IN IF last'.err = ErrNone
              THEN \E m \in deleted :
                     /\ [m EXCEPT !.deleted = FALSE] \in committed'
                     /\ last'.ret = { [m EXCEPT !.deleted = FALSE] }
              ELSE deleted = {} /\ committed' = committed ]_vars

(***************************************************************************)
(* Group criteria in the relational translator.                            *)
(***************************************************************************)
\* Does the row satisfy the criterion taken alone?  A group criterion stands
\* for its nested sequence translated on its own.
Truth(c, r) ==
  IF Len(c.group) > 0 THEN EvalWhere(ApplyFilters(NewStatement, c.group).where, r)
  ELSE EvalCond(SingleFilterCond(c), r)

\* Is element i joined to element i - 1 with OR?
JoinedWithOr(filters, i) == i > 1 /\ filters[i-1].logicalOp = LogicalOperatorOr

\* Elements i and j are in the same run of AND-joined elements.
SameRun(filters, i, j) ==
  \A k \in 2..Len(filters) : (k > i \/ k > j) /\ (k <= i \/ k <= j) => ~JoinedWithOr(filters, k)

\* The sequence with every element standing as one operand, a leaf or a group
\* alike, in the WHERE clause the translator emits.
AsOperands(filters, r) ==
  \/ Len(filters) = 0
  \/ \E i \in 1..Len(filters) :
       \A j \in 1..Len(filters) : SameRun(filters, i, j) => Truth(filters[j], r)

GroupExample ==
  << WithLogicalOp(Equal("id", 2)[1], LogicalOperatorAnd),
     CHOOSE g \in GroupCriteria : TRUE >>

\* C19: a group criterion is one parenthesised operand, built from its nested
\* sequence by the same algorithm and joined to the running predicate as a
\* leaf in its place would be; [id = 2 (and), group[id = 1 (or), val = MaxVal]]
\* selects the rows with id = 2 AND (id = 1 OR val = MaxVal).
C19_GroupIsOneOperand ==
  (selected.step >= 1 /\ \A i \in 1..Len(query.filters) : query.filters[i] \in Criteria)
    => /\ selected.ident = { r \in LiveRows : AsOperands(query.filters, r) }
       /\ query.filters = GroupExample
            => selected.ident = { r \in LiveRows : r.id = 2 /\ (r.id = 1 \/ r.val = MaxVal) }

\* The example of the claim has been translated, and it selected a row.
C19_Witness ==
  /\ selected.step >= 1
  /\ query.filters = GroupExample
  /\ selected.ident # {}

(***************************************************************************)
(* Between criteria on both translators.                                   *)
(***************************************************************************)
\* A between criterion whose Values hold fewer than two entries.
ShortBetween(c) == c.operator = FilterOperatorBetween /\ Len(c.values) < 2

\* A between criterion whose Values hold at least two entries.
FullBetween(c) == c.operator = FilterOperatorBetween /\ Len(c.values) >= 2

InRange(c) == { r \in LiveRows : c.values[1] <= r[c.field] /\ r[c.field] <= c.values[2] }

\* C20: on both backends a between criterion with at least two values selects
\* the records whose field lies in the inclusive range of the first two, and
\* a between criterion with fewer than two values is skipped without error:
\* alone it selects every record, and before another criterion it leaves the
\* selection to that criterion.
C20_BetweenOnBothBackends ==
  selected.step >= 3
    => LET f == query.filters IN
       /\ (Len(f) = 1 /\ FullBetween(f[1]))
            => (selected.ident = InRange(f[1]) /\ ~selected.mongoErr
                /\ selected.mongo = InRange(f[1]))
       /\ (Len(f) = 1 /\ ShortBetween(f[1]))
            => (selected.ident = LiveRows /\ ~selected.mongoErr /\ selected.mongo = LiveRows)
       /\ (Len(f) = 2 /\ ShortBetween(f[1]) /\ f[2] \in LeafCriteria)
            => LET rest == { r \in LiveRows : Truth(f[2], r) }
               IN selected.ident = rest /\ ~selected.mongoErr /\ selected.mongo = rest

(***************************************************************************)
(* Criteria with an unknown operator.                                      *)
(***************************************************************************)
\* The sequence without its element i.
Without(filters, i) == SubSeq(filters, 1, i - 1) \o SubSeq(filters, i + 1, Len(filters))

\* C21: a criterion with an unknown operator is a no-op wherever it stands:
\* both translators select what they select for the sequence without the
\* criterion, and no error is raised.
C21_UnknownOperatorIsNoOp ==
  selected.step >= 3
    => \A i \in 1..Len(query.filters) :
         query.filters[i].operator = FilterOperatorUnknown
           => /\ selected.ident
                   = Select(BuildQueryFromIdentifier(Without(query.filters, i)), AllRows)
              /\ ~selected.mongoErr
              /\ selected.mongo
                   = BsonSelect(LiveFilter(Without(query.filters, i)), AllRows)

(***************************************************************************)
(* SpecClone: QueryParams.Clone.  The slices of a QueryParams value point  *)
(* into backing arrays; a FilterCriteria element holds two slices of its   *)
(* own, Values and Group.                                                  *)
(***************************************************************************)
\* A FilterCriteria struct as it lies in an array.
CriteriaStruct(field, operator, value, values, group) ==
  [field |-> field, operator |-> operator, value |-> value, values |-> values, group |-> group]

SortField(field, order) == [field |-> field, order |-> order]

\* The arrays q's slices point into: 1 the Values of the in criterion, 2 the
\* Group of the group criterion, 3 Filters, 4 Sort, 5 Preloads.
InitialHeap ==
  << << 1, 2 >>,
     << CriteriaStruct("val", FilterOperatorEqual, 1, NilSlice, NilSlice) >>,
     << CriteriaStruct("id", FilterOperatorIn, Null, Slice(1, 2), NilSlice),
        CriteriaStruct("", "", Null, NilSlice, Slice(2, 1)) >>,
     << SortField("id", "asc") >>,
     << "owner" >> >>

\* The elements changes write.
NewElement(which) ==
  CASE which = "filters" -> CriteriaStruct("id", FilterOperatorEqual, 2, NilSlice, NilSlice)
    [] which = "sort" -> SortField("val", "desc")
    [] which = "preloads" -> "tags"

InitClone ==
  /\ heap = InitialHeap
  /\ \E p \in 1..2, inc \in BOOLEAN, f \in {NilSlice, Slice(3, 0), Slice(3, 1), Slice(3, 2)},
        so \in {NilSlice, Slice(4, 1)}, pr \in {NilSlice, Slice(5, 1)} :
       qpOrig = [ZeroQueryParams EXCEPT !.page = p, !.pageSize = 10, !.includeDeleted = inc,
                                        !.filters = f, !.sort = so, !.preloads = pr]
  /\ qpClone = ZeroQueryParams
  /\ edits = [cloned |-> FALSE, n |-> 0, through |-> ""]
  /\ UowIdle
  /\ PageIdle
  /\ FilterIdle
  /\ BuilderIdle
  /\ RaceIdle

\* The elements of a slice.
Elements(h, s) == IF s.ref = Nil THEN << >> ELSE SubSeq(h[s.ref], 1, s.len)

\* make([]E, len(s)) and copy(new, s) for a slice that is not nil: a new array
\* holding the elements of s, each copied as a struct.
copySlice(h, s) ==
  IF s.ref = Nil THEN [slice |-> NilSlice, heap |-> h]
  ELSE [slice |-> Slice(Len(h) + 1, s.len), heap |-> Append(h, Elements(h, s))]

\* c := q.Clone()
CloneCall ==
  /\ ~edits.cloned
  /\ LET so == copySlice(heap, qpOrig.sort)
         fi == copySlice(so.heap, qpOrig.filters)
         pr == copySlice(fi.heap, qpOrig.preloads)
     IN /\ heap' = pr.heap
        /\ qpClone' = [qpOrig EXCEPT !.sort = so.slice, !.filters = fi.slice,
                                     !.preloads = pr.slice]
  /\ edits' = [edits EXCEPT !.cloned = TRUE]
  /\ UNCHANGED << qpOrig, uowVars, pageVars, filterVars, builderVars, raceVars >>

Through(w) == IF w = "q" THEN qpOrig ELSE qpClone

\* qpOrig' and qpClone' after the value reached through w becomes o.
Becomes(w, o) ==
  IF w = "q" THEN qpOrig' = o /\ qpClone' = qpClone
  ELSE qpClone' = o /\ qpOrig' = qpOrig

Edited(w) == edits' = [edits EXCEPT !.n = edits.n + 1, !.through = w]

\* x.Filters = append(x.Filters, e) (and the same for Sort and Preloads): in
\* place when the array has room, into a new array otherwise.
AppendElement(w, which) ==
  /\ edits.cloned /\ edits.n < MaxEdits
  /\ LET s == Through(w)[which] IN
       IF s.ref # Nil /\ s.len < Len(heap[s.ref])
       THEN /\ heap' = [heap EXCEPT ![s.ref][s.len + 1] = NewElement(which)]
            /\ Becomes(w, [Through(w) EXCEPT ![which] = Slice(s.ref, s.len + 1)])
       ELSE /\ heap' = Append(heap, Append(Elements(heap, s), NewElement(which)))
            /\ Becomes(w, [Through(w) EXCEPT ![which] = Slice(Len(heap) + 1, s.len + 1)])
  /\ Edited(w)
  /\ UNCHANGED << uowVars, pageVars, filterVars, builderVars, raceVars >>

\* x.Filters[i] = e (and the same for Sort and Preloads)
ReplaceElement(w, which, i) ==
  /\ edits.cloned /\ edits.n < MaxEdits
  /\ LET s == Through(w)[which] IN
       /\ i <= s.len
       /\ heap' = [heap EXCEPT ![s.ref][i] = NewElement(which)]
  /\ Edited(w)
  /\ UNCHANGED << qpOrig, qpClone, uowVars, pageVars, filterVars, builderVars, raceVars >>

\* x.Filters[i].Values[j] = v
SetValue(w, i, j, v) ==
  /\ edits.cloned /\ edits.n < MaxEdits
  /\ LET s == Through(w).filters IN
       /\ i <= s.len
       /\ j <= heap[s.ref][i].values.len
       /\ heap' = [heap EXCEPT ![heap[s.ref][i].values.ref][j] = v]
  /\ Edited(w)
  /\ UNCHANGED << qpOrig, qpClone, uowVars, pageVars, filterVars, builderVars, raceVars >>

\* x.Filters[i].Group[j] = e
SetGroupMember(w, i, j) ==
  /\ edits.cloned /\ edits.n < MaxEdits
  /\ LET s == Through(w).filters IN
       /\ i <= s.len
       /\ j <= heap[s.ref][i].group.len
       /\ heap' = [heap EXCEPT ![heap[s.ref][i].group.ref][j] = NewElement("filters")]
  /\ Edited(w)
  /\ UNCHANGED << qpOrig, qpClone, uowVars, pageVars, filterVars, builderVars, raceVars >>

NextClone ==
  \/ CloneCall
  \/ \E w \in {"q", "c"}, which \in {"filters", "sort", "preloads"} : AppendElement(w, which)
  \/ \E w \in {"q", "c"}, which \in {"filters", "sort", "preloads"}, i \in 1..2 :
       ReplaceElement(w, which, i)
  \/ \E w \in {"q", "c"}, i \in 1..2, j \in 1..2, v \in {7} : SetValue(w, i, j, v)
  \/ \E w \in {"q", "c"}, i \in 1..2, j \in 1..2 : SetGroupMember(w, i, j)

SpecClone == InitClone /\ [][NextClone]_vars

\* What a caller can read through a QueryParams value.
ViewCriteria(h, c) ==
  [field |-> c.field, operator |-> c.operator, value |-> c.value,
   values |-> Elements(h, c.values), group |-> Elements(h, c.group)]

View(h, o) ==
  [o EXCEPT !.sort = [nil |-> o.sort.ref = Nil, elements |-> Elements(h, o.sort)],
            !.preloads = [nil |-> o.preloads.ref = Nil, elements |-> Elements(h, o.preloads)],
            !.filters = [nil |-> o.filters.ref = Nil,
                         elements |-> [i \in 1..o.filters.len
                                         |-> ViewCriteria(h, h[o.filters.ref][i])]]]

\* C22: c := q.Clone() reads as q does; after it no change made through c
\* (appending, replacing an element, changing the values or the group of a
\* criterion) shows through q, and no change made through q shows through c.
C22_CloneIsDeepCopy ==
  [][ /\ (~edits.cloned /\ edits'.cloned) => View(heap', qpClone') = View(heap', qpOrig')
      /\ (edits'.n > edits.n /\ edits'.through = "c")
           => View(heap', qpOrig') = View(heap, qpOrig)
      /\ (edits'.n > edits.n /\ edits'.through = "q")
           => View(heap', qpClone') = View(heap, qpClone) ]_vars

(***************************************************************************)
(* SpecPrepare: PrepareDefaults on a QueryParams value with its slices,    *)
(* called more than once.                                                  *)
(***************************************************************************)
\* Mutant: an absent slice is left absent.
ensureSlice_LeavesNil(h, s) == [slice |-> s, heap |-> h]

\* if qp.Sort == nil { qp.Sort = make([]SortField, 0) } (and the same for
\* Filters and Preloads)
ensureSlice(h, s) ==
  IF s.ref = Nil THEN [slice |-> Slice(Len(h) + 1, 0), heap |-> Append(h, << >>)]
  ELSE [slice |-> s, heap |-> h]

\* The whole of PrepareDefaults: the pagination fields, then the slices.
PrepareDefaultsAll(h, o) ==
  LET paged == PrepareDefaults(o)
      so == ensureSlice(h, paged.sort)
      fi == ensureSlice(so.heap, paged.filters)
      pr == ensureSlice(fi.heap, paged.preloads)
  IN [qp |-> [paged EXCEPT !.sort = so.slice, !.filters = fi.slice, !.preloads = pr.slice],
      heap |-> pr.heap]

InitPrepare ==
  /\ request \in { QueryParams(p, ps, o, l) :
                     p \in PageInputs, ps \in SizeInputs, o \in OffsetInputs, l \in LimitInputs }
  /\ qp = request
  /\ qpTwin = OffsetLimitTwin(request)
  /\ prepared = << 0, 0 >>
  /\ heap = InitialHeap
  /\ \E f \in {NilSlice, Slice(3, 0), Slice(3, 2)}, so \in {NilSlice, Slice(4, 1)},
        pr \in {NilSlice, Slice(5, 1)} :
       qpOrig = [ZeroQueryParams EXCEPT !.page = request.page, !.pageSize = request.pageSize,
                                        !.offset = request.offset, !.limit = request.limit,
                                        !.filters = f, !.sort = so, !.preloads = pr]
  /\ qpClone = ZeroQueryParams
  /\ edits = [cloned |-> FALSE, n |-> 0, through |-> ""]
  /\ UowIdle
  /\ FilterIdle
  /\ BuilderIdle
  /\ RaceIdle

\* q.PrepareDefaults()
PrepareDefaultsCall ==
  /\ edits.n < MaxEdits
  /\ LET done == PrepareDefaultsAll(heap, qpOrig)
     IN qpOrig' = done.qp /\ heap' = done.heap
  /\ edits' = [edits EXCEPT !.n = edits.n + 1, !.through = "q"]
  /\ UNCHANGED << qpClone, uowVars, pageVars, filterVars, builderVars, raceVars >>

NextPrepare == PrepareDefaultsCall

SpecPrepare == InitPrepare /\ [][NextPrepare]_vars

\* C23: once PrepareDefaults has been called, calling it again changes
\* nothing (no field, no slice, no array), whatever the pagination fields
\* and slices were before the first call; and sort, filters and preloads
\* are present.
C23_PrepareDefaultsIdempotent ==
  edits.n >= 1
    => /\ PrepareDefaultsAll(heap, qpOrig) = [qp |-> qpOrig, heap |-> heap]
       /\ qpOrig.sort.ref # Nil /\ qpOrig.filters.ref # Nil /\ qpOrig.preloads.ref # Nil

\* PrepareDefaults has been called twice on a value that had page size 500,
\* no valid offset / limit and no sort, filters or preloads.
C23_Witness ==
  /\ edits.n = 2
  /\ request.pageSize = 500 /\ request.page = -1 /\ request.limit = 0
  /\ qpOrig.pageSize = MaxPageSize /\ qpOrig.page = 1
  /\ Len(heap) = Len(InitialHeap) + 3


\* ---------------------------------------------------------------------------
\* C24: And(other) and Or(other) return the very same receiver instance, not a
\* clone, with its criteria unchanged, whenever other is nil or other's
\* ToFilterCriteria() is empty.
NothingToAdd(g) ==
  /\ Done(g)
  /\ calls[g].op \in {LogicalOperatorAnd, LogicalOperatorOr}
  /\ calls[g].nilArg \/ Len(ToFilterCriteria(original.argument)) = 0

C24_NothingToAddReturnsReceiver ==
  \A g \in 1..MaxCalls :
    NothingToAdd(g)
      => /\ calls[g].ret.ref = "recv"
         /\ (\A h \in 1..MaxCalls : calls[h].pc = "idle" \/ NothingToAdd(h))
              => ToFilterCriteria(receiver) = original.receiver

C24_Witness ==
  /\ \E g \in 1..MaxCalls : NothingToAdd(g) /\ calls[g].nilArg /\ calls[g].op = LogicalOperatorOr
  /\ \E g \in 1..MaxCalls : NothingToAdd(g) /\ ~calls[g].nilArg /\ calls[g].op = LogicalOperatorAnd
  /\ Len(original.receiver) > 0
  /\ ToFilterCriteria(receiver) = original.receiver


(***************************************************************************)
(* SpecRace: BeginTransaction called by several goroutines at once on one  *)
(* idle instance. Nothing in either orchestrator locks the handle, so the  *)
(* test of the handle, the opening of the storage transaction and the      *)
(* write of the handle are separate steps that interleave. The read and    *)
(* the write of the handle are a data race on one pointer-sized field: a   *)
(* read yields nil or a handle that some goroutine wrote.                  *)
(***************************************************************************)
NoBegin == [pc |-> "idle", local |-> Nil, err |-> ErrNone, lost |-> FALSE]

InitRace ==
  /\ backend \in {"postgres", "mongo"}
  /\ tx = Nil
  /\ committed \in Tables
  /\ txView = << >>
  /\ last = Result("New", Null, ErrNone, {})
  /\ begins = [g \in 1..MaxCalls |-> NoBegin]
  /\ PageIdle
  /\ FilterIdle
  /\ BuilderIdle
  /\ CloneIdle

\* if uow.tx != nil { return error } / if uow.session != nil { return error }
BeginCheck(g) ==
  /\ begins[g].pc = "idle"
  /\ begins' = [begins EXCEPT ![g].pc = IF tx # Nil THEN "done" ELSE "checked",
                              ![g].err = IF tx # Nil THEN ErrInProgress ELSE ErrNone]
  /\ UNCHANGED << uowVars, pageVars, filterVars, builderVars, cloneVars >>

\* tx := uow.db.WithContext(ctx).Begin() / StartSession and StartTransaction
BeginOpen(g) ==
  /\ begins[g].pc = "checked"
  /\ \E ok \in BOOLEAN :
       IF ok /\ OpenTxs # 1..MaxTx
       THEN /\ txView' = StorageBegin(NewTx)
            /\ begins' = [begins EXCEPT ![g].pc = "opened", ![g].local = NewTx]
       ELSE /\ begins' = [begins EXCEPT ![g].pc = "done", ![g].err = ErrStorage]
            /\ UNCHANGED txView
  /\ UNCHANGED << backend, tx, committed, last, pageVars, filterVars, builderVars, cloneVars >>

\* The call whose handle is in the instance when another call writes its own.
Overwritten(h) ==
  /\ tx # Nil
  /\ begins[h].pc = "done"
  /\ begins[h].err = ErrNone
  /\ begins[h].local = tx

\* Mutant: writing the handle rolls back the transaction it replaces.
BeginAssign_EndsReplaced(g) ==
  /\ begins[g].pc = "opened"
  /\ tx' = begins[g].local
  /\ txView' = IF tx # Nil THEN StorageEnd(tx) ELSE txView
  /\ begins' = [h \in 1..MaxCalls |->
                  IF h = g THEN [begins[g] EXCEPT !.pc = "done"]
                  ELSE IF Overwritten(h) THEN [begins[h] EXCEPT !.lost = TRUE]
                  ELSE begins[h]]
  /\ last' = Result("BeginTransaction", Null, ErrNone, {})
  /\ UNCHANGED << backend, committed, pageVars, filterVars, builderVars, cloneVars >>

\* uow.tx = tx; return nil / uow.session = session; return nil
BeginAssign(g) ==
  /\ begins[g].pc = "opened"
  /\ tx' = begins[g].local
  /\ begins' = [h \in 1..MaxCalls |->
                  IF h = g THEN [begins[g] EXCEPT !.pc = "done"]
                  ELSE IF Overwritten(h) THEN [begins[h] EXCEPT !.lost = TRUE]
                  ELSE begins[h]]
  /\ last' = Result("BeginTransaction", Null, ErrNone, {})
  /\ UNCHANGED << backend, committed, txView, pageVars, filterVars, builderVars, cloneVars >>

\* Every BeginTransaction call has returned.
AllReturned == \A g \in 1..MaxCalls : begins[g].pc = "done"

\* After the calls have returned the caller ends the transaction of the instance.
CommitAfter == AllReturned /\ (PgCommitTransaction \/ MongoCommitTransaction)

RollbackAfter == AllReturned /\ (PgRollbackTransaction \/ MongoRollbackTransaction)

NextRace ==
  \/ \E g \in 1..MaxCalls : BeginCheck(g)
  \/ \E g \in 1..MaxCalls : BeginOpen(g)
  \/ \E g \in 1..MaxCalls : BeginAssign(g)
  \/ CommitAfter
  \/ RollbackAfter

SpecRace == InitRace /\ [][NextRace]_vars

\* The calls that reported success.
Succeeded == { g \in 1..MaxCalls : begins[g].pc = "done" /\ begins[g].err = ErrNone }

\* C25: nothing serialises BeginTransaction on one instance: concurrent calls
\* on an idle instance can all report success, each having opened a storage
\* transaction of its own, and the instance tracks only one of them; a
\* transaction whose handle was overwritten stays open, whatever the instance
\* commits or rolls back afterwards.
C25_ConcurrentBeginLosesTransaction ==
  /\ \A g \in Succeeded, h \in Succeeded : g # h => begins[g].local # begins[h].local
  /\ \A g \in Succeeded : begins[g].local \in OpenTxs \/ (AllReturned /\ ~begins[g].lost)
  /\ \A g \in 1..MaxCalls :
       begins[g].lost
         => /\ g \in Succeeded
            /\ begins[g].local \in OpenTxs
            /\ begins[g].local # tx
            /\ \E h \in Succeeded : h # g /\ ~begins[h].lost

C25_Witness ==
  /\ Cardinality(Succeeded) = 2
  /\ \E g \in Succeeded : begins[g].lost
  /\ tx = Nil
  /\ Cardinality(OpenTxs) = 1
  /\ last.op \in {"CommitTransaction", "RollbackTransaction"}


(***************************************************************************)
(* SpecQuery: the reading operations that take query parameters            *)
(* (FindAllWithPagination, GetTrashedWithPagination, Count) on both        *)
(* orchestrators, on a table that already holds rows, with SoftDelete      *)
(* between them.                                                           *)
(***************************************************************************)
\* MongoFilterApplier.ApplyQueryParams: one applyFilterCriteria per element of
\* Filters on the base filter; QueryParams has no field named Filter, and
\* Search, IncludeDeleted and OnlyDeleted are not read.
MongoApplyQueryParams(baseFilter, queryParams) ==
  BsonApplyFrom(baseFilter, queryParams.filters, 1)

\* MongoUnitOfWork.FindAllWithPagination: PrepareDefaults, the base filter
\* deleted_at $exists false, CountDocuments and Find with skip and limit on
\* the same filter.
MongoPage(queryParams, rows) ==
  LET prepared_ == PrepareDefaults(queryParams)
      filter == MongoApplyQueryParams(BsonSet(EmptyBson, "deleted_at", DeletedAtExists(FALSE)),
                                      prepared_)
      total == Cardinality(BsonSelect(filter, rows))
      entities == Window(BsonSelect(filter, rows),
                         prepared_.computedOffset, prepared_.computedLimit)
  IN [params |-> prepared_, entities |-> entities, total |-> total,
      err |-> IF BsonInvalid(filter) THEN ErrStorage ELSE ErrNone]

MongoFindAllWithPagination(queryParams) ==
  /\ backend = "mongo"
  /\ LET page == MongoPage(queryParams, Rows(getSessionContext))
     IN last' = IF page.err # ErrNone
                THEN ResultWithTotal("FindAllWithPagination", page.params, page.err, {}, 0)
                ELSE ResultWithTotal("FindAllWithPagination", page.params, ErrNone,
                                     page.entities, page.total)
  /\ UNCHANGED << backend, tx, committed, txView, pageVars, filterVars, builderVars, cloneVars, raceVars >>

\* params.OnlyDeleted = true; return uow.FindAllWithPagination(ctx, params)
PgGetTrashedWithPagination(params) ==
  /\ backend = "postgres"
  /\ LET page == PgPage([params EXCEPT !.onlyDeleted = TRUE], Rows(getDB))
     IN last' = ResultWithTotal("GetTrashedWithPagination", page.params, ErrNone,
                                page.entities, page.total)
  /\ UNCHANGED << backend, tx, committed, txView, pageVars, filterVars, builderVars, cloneVars, raceVars >>

MongoGetTrashedWithPagination(params) ==
  /\ backend = "mongo"
  /\ LET page == MongoPage([params EXCEPT !.onlyDeleted = TRUE], Rows(getSessionContext))
     IN last' = IF page.err # ErrNone
                THEN ResultWithTotal("GetTrashedWithPagination", page.params, page.err, {}, 0)
                ELSE ResultWithTotal("GetTrashedWithPagination", page.params, ErrNone,
                                     page.entities, page.total)
  /\ UNCHANGED << backend, tx, committed, txView, pageVars, filterVars, builderVars, cloneVars, raceVars >>

\* PostgresUnitOfWork.Count: ApplyQueryParams on db.Model(new(T)), then Count
\* on that filtered query.
PgCountOf(query_, rows) ==
  Cardinality(Select(ApplyQueryParams(NewStatement, query_), rows))

PgCount(query_) ==
  /\ backend = "postgres"
  /\ last' = ResultWithTotal("Count", query_, ErrNone, {}, PgCountOf(query_, Rows(getDB)))
  /\ UNCHANGED << backend, tx, committed, txView, pageVars, filterVars, builderVars, cloneVars, raceVars >>

\* MongoUnitOfWork.Count: ApplyQueryParams on the base filter deleted_at
\* $exists true, then CountDocuments.
MongoCountOf(queryParams, rows) ==
  Cardinality(BsonSelect(MongoApplyQueryParams(BsonSet(EmptyBson, "deleted_at", DeletedAtExists(TRUE)),
                                               queryParams), rows))

MongoCount(queryParams) ==
  /\ backend = "mongo"
  /\ last' = ResultWithTotal("Count", queryParams, ErrNone, {},
                             MongoCountOf(queryParams, Rows(getSessionContext)))
  /\ UNCHANGED << backend, tx, committed, txView, pageVars, filterVars, builderVars, cloneVars, raceVars >>

InitQuery ==
  /\ backend \in {"postgres", "mongo"}
  /\ tx = Nil
  /\ committed \in Tables
  /\ txView = << >>
  /\ last = Result("New", Null, ErrNone, {})
  /\ PageIdle
  /\ FilterIdle
  /\ BuilderIdle
  /\ CloneIdle
  /\ RaceIdle

NextQuery ==
  \/ \E params \in PageQueries : PgFindAllWithPagination(params)
  \/ \E params \in PageQueries : MongoFindAllWithPagination(params)
  \/ \E params \in PageQueries : PgGetTrashedWithPagination(params)
  \/ \E params \in PageQueries : MongoGetTrashedWithPagination(params)
  \/ \E params \in PageQueries : PgCount(params)
  \/ \E params \in PageQueries : MongoCount(params)
  \/ \E i \in Identifiers : PgSoftDelete(i)
  \/ \E i \in Identifiers : MongoSoftDelete(i)

SpecQuery == InitQuery /\ [][NextQuery]_vars

\* The soft-deleted records that satisfy the filters of the query parameters.
TrashedMatching(params) == { r \in Visible : r.deleted /\ FilterPredicate(params, r) }

\* C26: on both orchestrators GetTrashedWithPagination returns only records
\* that carry a deletion marker, its total is the number of soft-deleted
\* records that satisfy the filters, whatever visibility flags the caller had
\* set, and the page it returns is the asked window of those records, so each
\* of them is reachable through it.
C26_TrashedOnlyDeleted ==
  (last.op = "GetTrashedWithPagination" /\ last.err = ErrNone)
    => /\ \A r \in last.ret : r.deleted
       /\ last.total = Cardinality(TrashedMatching(last.arg))
       /\ last.ret = Window(TrashedMatching(last.arg), last.arg.computedOffset, last.arg.computedLimit)


\* The total FindAllWithPagination returns for the same parameters on the
\* rows the instance sees now.
TotalOf(params) ==
  IF backend = "postgres" THEN PgPage(params, Visible).total
  ELSE MongoPage(params, Visible).total

\* C27: for the same query parameters and the same stored data Count returns
\* the total of FindAllWithPagination, on each orchestrator; with the default
\* visibility it is the number of non-deleted records that satisfy the
\* filters.
C27_CountEqualsTotal ==
  (last.op = "Count" /\ last.err = ErrNone)
    => /\ last.total = TotalOf(last.arg)
       /\ (~last.arg.onlyDeleted /\ ~last.arg.includeDeleted)
            => last.total = Cardinality({ r \in Visible :
                                            ~r.deleted /\ FilterPredicate(last.arg, r) })


\* C28: a successful Update(identifier, entity) changes only a record the
\* identifier matches: no record is created and every record the identifier
\* does not match is stored as before, whatever id the entity carries.
C28_UpdateChangesOnlyMatched ==
  [][ (last'.op = "Update" /\ last'.err = ErrNone)
        => /\ Cardinality(committed') <= Cardinality(committed)
           /\ \A r \in committed : ~Matches(last'.arg, r) => r \in committed' ]_vars

\* C29: a successful SoftDelete(identifier) sets the deletion marker on exactly
\* one record, the one whose snapshot it returns, and leaves every other
\* record, other live matches of the identifier included, unchanged.
C29_SoftDeleteMarksExactlyOne ==
  [][ (last'.op = "SoftDelete" /\ last'.err = ErrNone)
        => \E e \in last'.ret :
             /\ e \in committed
             /\ ~e.deleted
             /\ committed' = (committed \ {e}) \cup { [e EXCEPT !.deleted = TRUE] } ]_vars


\* C30: for every request with offset >= 0 and limit > 0 the window
\* PrepareDefaults computes contains the requested starting position:
\* computedOffset <= offset < computedOffset + computedLimit, with
\* computedOffset >= 0 and 1 <= computedLimit <= 200.
C30_WindowContainsOffset ==
  (prepared[1] >= 1 /\ request.offset >= 0 /\ request.limit > 0)
    => /\ qp.computedOffset <= request.offset
       /\ request.offset < qp.computedOffset + qp.computedLimit
       /\ qp.computedOffset >= 0
       /\ 1 <= qp.computedLimit /\ qp.computedLimit <= MaxPageSize

=============================================================================
